---- MODULE Spec2Model ----
(***************************************************************************)
(* Phase-2 placement engine of the grocery delivery planner:               *)
(* PlacerOrchestrator over SimpleStateView, SimpleFeasibility, the         *)
(* best-fit reefer / dry placers and the DayTracker ledger.                *)
(*                                                                         *)
(* Quantities are integers: volumes in m3 units, weights in kg units,      *)
(* fractions (reserve_fraction, min_utilization, cold fraction,            *)
(* alpha_threshold, slack) in percent.  The fleet and the order book are   *)
(* chosen so that every division the code performs is exact.               *)
(***************************************************************************)
EXTENDS Integers, Sequences, FiniteSets, TLC

VARIABLES
    trucks,     \* Truck runtime fields per truck id (Depot.available_trucks)
    open,       \* SimpleStateView._open
    tracker,    \* DayTracker
    policy,     \* the duck-typed Policy object handed to the orchestrator
    orchestrator, \* attributes set on the PlacerOrchestrator after construction
    selection,  \* SelectionOrchestrator with its SelectionState
    run,        \* the run_many call in progress: its queue, position and results
    ret         \* what the most recent call returned / did

vars == <<trucks, open, tracker, policy, orchestrator, selection, run, ret>>

Max(a, b) == IF a >= b THEN a ELSE b

\* getattr(obj, name, default) / dict.get(name, default) on a record
GetAttr(obj, name, default) == IF name \in DOMAIN obj THEN obj[name] ELSE default

\* hasattr(obj, name)
HasAttr(obj, name) == name \in DOMAIN obj

(***************************************************************************)
(* Static data: the depot's fleet and the day's orders.                    *)
(***************************************************************************)

\* Depot.available_trucks: ids 1,2 are the reefers "R1","R2", ids 3,4 the dry
\* trucks "D1","D2"; integer order is the order sorted() gives within a type.
Fleet ==
    <<[type |-> "Reefer", total_capacity_m3 |-> 10, cold_capacity_m3 |-> 3,
       weight_limit_kg |-> 6, fixed_cost |-> 5, min_utilization |-> 50,
       reserve_fraction |-> 50, cooler_capacity_m3 |-> 0],
      [type |-> "Reefer", total_capacity_m3 |-> 10, cold_capacity_m3 |-> 3,
       weight_limit_kg |-> 6, fixed_cost |-> 6, min_utilization |-> 50,
       reserve_fraction |-> 50, cooler_capacity_m3 |-> 0],
      [type |-> "Dry", total_capacity_m3 |-> 5, cold_capacity_m3 |-> 0,
       weight_limit_kg |-> 4, fixed_cost |-> 3, min_utilization |-> 40,
       reserve_fraction |-> 20, cooler_capacity_m3 |-> 2],
      [type |-> "Dry", total_capacity_m3 |-> 8, cold_capacity_m3 |-> 0,
       weight_limit_kg |-> 6, fixed_cost |-> 4, min_utilization |-> 50,
       reserve_fraction |-> 50, cooler_capacity_m3 |-> 1]>>

TruckIds == DOMAIN Fleet

\* CustomerOrder aggregates (compute_from_items) plus the customer's vip flag.
\* cold_fraction is q_cold / q in percent.
OrderBook ==
    <<[total_volume_m3 |-> 1, cold_volume_m3 |-> 0, weight_kg |-> 2,
       effective_volume_m3 |-> 2, cold_fraction |-> 0, vip |-> TRUE],
      [total_volume_m3 |-> 2, cold_volume_m3 |-> 1, weight_kg |-> 1,
       effective_volume_m3 |-> 2, cold_fraction |-> 50, vip |-> FALSE],
      [total_volume_m3 |-> 2, cold_volume_m3 |-> 2, weight_kg |-> 3,
       effective_volume_m3 |-> 2, cold_fraction |-> 100, vip |-> FALSE],
      [total_volume_m3 |-> 1, cold_volume_m3 |-> 0, weight_kg |-> 1,
       effective_volume_m3 |-> 1, cold_fraction |-> 0, vip |-> FALSE]>>

\* The orders a driver hands over one call at a time
OrderIds == {1, 2, 3}

\* The orders a queue for run_many is made of: the whole book
QueueIds == DOMAIN OrderBook

None == 0   \* Python None for an optional truck id

(***************************************************************************)
(* Truck (business object)                                                 *)
(***************************************************************************)

\* residual_volume_m3 computed from the whole capacity, the reserve ignored
residual_volume_ignoring_reserve(t) ==
    Max(0, Fleet[t].total_capacity_m3 - trucks[t].used_volume_m3)

\* Truck.residual_volume_m3: total * (1 - max(0, reserve)) - used, floored at 0
residual_volume_m3(t) ==
    LET available == (Fleet[t].total_capacity_m3 * (100 - Max(0, Fleet[t].reserve_fraction))) \div 100
    IN  Max(0, available - trucks[t].used_volume_m3)

\* Truck.residual_cold_m3
residual_cold_m3(t) ==
    IF Fleet[t].type = "Dry" THEN 0
    ELSE Max(0, Fleet[t].cold_capacity_m3 - trucks[t].used_cold_m3)

\* residual_weight_kg that forgets the weight already loaded
residual_weight_unloaded(t) == Max(0, Fleet[t].weight_limit_kg)

\* Truck.residual_weight_kg
residual_weight_kg(t) == Max(0, Fleet[t].weight_limit_kg - trucks[t].used_weight_kg)

\* str(t.type).lower() for the (str, Enum) TruckType: "TruckType.DRY".lower()
TypeStrLower(t) == IF Fleet[t].type = "Reefer" THEN "trucktype.reefer" ELSE "trucktype.dry"

(***************************************************************************)
(* SimpleStateView                                                         *)
(***************************************************************************)

\* SimpleStateView.order_features: an OrderFeat with exactly three fields
order_features(o) ==
    [effective_volume_m3 |-> OrderBook[o].effective_volume_m3,
     cold_volume_m3      |-> OrderBook[o].cold_volume_m3,
     weight_kg           |-> OrderBook[o].weight_kg]

\* SimpleStateView._type_str
TypeStr(t) == IF Fleet[t].type = "Reefer" THEN "reefer" ELSE "dry"

\* SimpleStateView.truck_features: a TruckFeat with the single field type
truck_features(t) == [type |-> TypeStr(t)]

\* SimpleStateView.truck_residuals: a TruckResiduals with exactly three fields
truck_residuals(t) ==
    [remaining_volume_m3 |-> residual_volume_m3(t),
     remaining_cold_m3   |-> residual_cold_m3(t),
     remaining_weight_kg |-> residual_weight_kg(t)]

\* The ids SimpleStateView.open_trucks(type_filter) lists
OpenIds(type_filter) == {t \in open : TypeStr(t) = type_filter}

\* The lists a Python set of these ids can be iterated as: any order
IterOrders(S) ==
    {s \in [1..Cardinality(S) -> S] : \A i, j \in 1..Cardinality(S) : i # j => s[i] # s[j]}

\* SimpleStateView.open_trucks: the filtered set in set-iteration order, which
\* the hash seed decides; every order is a possible result
open_trucks(type_filter) == IterOrders(OpenIds(type_filter))

\* SimpleStateView.all_available_trucks (as a set; callers wrap it in set())
all_available_trucks(type_filter) == {t \in TruckIds : TypeStr(t) = type_filter}

(***************************************************************************)
(* SimpleFeasibility                                                       *)
(***************************************************************************)

\* fits_order_on_truck with volume and weight gates only
fits_without_cold_gate(o, t) ==
    LET of == order_features(o)
        r  == truck_residuals(t)
    IN  IF of.effective_volume_m3 > r.remaining_volume_m3 THEN FALSE
        ELSE IF of.weight_kg > r.remaining_weight_kg THEN FALSE
        ELSE TRUE

\* fits_order_on_truck with the cold gate applied to reefers only
fits_without_cold_gate_on_dry(o, t) ==
    LET of == order_features(o)
        r  == truck_residuals(t)
    IN  IF of.effective_volume_m3 > r.remaining_volume_m3 THEN FALSE
        ELSE IF Fleet[t].type # "Dry" /\ of.cold_volume_m3 > r.remaining_cold_m3 THEN FALSE
        ELSE IF of.weight_kg > r.remaining_weight_kg THEN FALSE
        ELSE TRUE

\* SimpleFeasibility.fits_order_on_truck
fits_order_on_truck(o, t) ==
    LET of == order_features(o)
        r  == truck_residuals(t)
    IN  IF of.effective_volume_m3 > r.remaining_volume_m3 THEN FALSE
        ELSE IF of.cold_volume_m3 > r.remaining_cold_m3 THEN FALSE
        ELSE IF of.weight_kg > r.remaining_weight_kg THEN FALSE
        ELSE TRUE

\* SimpleFeasibility.cooler_feasible
cooler_feasible(o, t) ==
    LET tfeat == truck_features(t)
        of    == order_features(o)
        r     == truck_residuals(t)
        used  == GetAttr(r, "cooler_used_m3", 0)
        truck_cap == GetAttr(tfeat, "cooler_capacity_m3",
                             GetAttr(policy, "per_truck_cooler_m3", 0))
        remaining_cooler ==
            IF HasAttr(r, "remaining_cooler_m3") THEN r["remaining_cooler_m3"]
            ELSE Max(0, truck_cap - used)
    IN  IF ~GetAttr(policy, "allow_cold_in_dry_B", FALSE) THEN FALSE
        ELSE IF tfeat.type # "dry" THEN FALSE
        ELSE IF of.cold_volume_m3 <= 0 THEN FALSE
        ELSE of.cold_volume_m3 <= remaining_cooler

(***************************************************************************)
(* best_fit_reefer                                                         *)
(***************************************************************************)

\* Python's < on two tuples of the same length
RECURSIVE TupleLess(_, _)
TupleLess(a, b) ==
    IF a = <<>> \/ b = <<>> THEN a = <<>> /\ b # <<>>
    ELSE IF Head(a) # Head(b) THEN Head(a) < Head(b)
    ELSE TupleLess(Tail(a), Tail(b))

\* demand / resid dictionaries of _residual_key
Demand(o, dim) ==
    LET f == order_features(o)
    IN  CASE dim = "cold"   -> f.cold_volume_m3
          [] dim = "volume" -> f.effective_volume_m3
          [] dim = "weight" -> f.weight_kg

Resid(t, dim) ==
    LET r == truck_residuals(t)
    IN  CASE dim = "cold"   -> r.remaining_cold_m3
          [] dim = "volume" -> r.remaining_volume_m3
          [] dim = "weight" -> r.remaining_weight_kg

\* _residual_key: [ok |-> FALSE] stands for None
_residual_key(o, t, scheme) ==
    IF \E i \in DOMAIN scheme : Resid(t, scheme[i]) - Demand(o, scheme[i]) < 0
    THEN [ok |-> FALSE, key |-> <<>>]
    ELSE [ok |-> TRUE,
          key |-> [i \in DOMAIN scheme |-> Resid(t, scheme[i]) - Demand(o, scheme[i])]]

\* The loop of choose_best_open_reefer over one iteration order `it`,
\* carrying best (None or the truck id whose key is the best so far)
RECURSIVE ScanReefers(_, _, _, _)
ScanReefers(it, o, scheme, best) ==
    IF it = <<>> THEN best
    ELSE LET tid == Head(it)
             k   == _residual_key(o, tid, scheme)
         IN  IF ~fits_order_on_truck(o, tid) THEN ScanReefers(Tail(it), o, scheme, best)
             ELSE IF ~k.ok THEN ScanReefers(Tail(it), o, scheme, best)
             ELSE IF best = None \/ TupleLess(k.key, _residual_key(o, best, scheme).key)
                  THEN ScanReefers(Tail(it), o, scheme, tid)
                  ELSE ScanReefers(Tail(it), o, scheme, best)

\* choose_best_open_reefer: the truck ids it can return (None included), one
\* per iteration order of the open set
choose_best_open_reefer(o, scheme) ==
    {ScanReefers(it, o, scheme, None) : it \in open_trucks("reefer")}

\* maybe_open_new_reefer scanning the candidates in descending id order
maybe_open_new_reefer_descending(o) ==
    IF ~GetAttr(policy, "allow_open_new_reefer_A", FALSE) THEN None
    ELSE LET candidates == all_available_trucks("reefer") \ OpenIds("reefer")
             feasible   == {t \in candidates : fits_order_on_truck(o, t)}
         IN  IF feasible = {} THEN None
             ELSE CHOOSE t \in feasible : \A u \in feasible : t >= u

\* maybe_open_new_reefer
maybe_open_new_reefer(o) ==
    IF ~GetAttr(policy, "allow_open_new_reefer_A", FALSE) THEN None
    ELSE LET candidates == all_available_trucks("reefer") \ OpenIds("reefer")
             feasible   == {t \in candidates : fits_order_on_truck(o, t)}
         IN  IF feasible = {} THEN None
             ELSE CHOOSE t \in feasible : \A u \in feasible : t <= u

\* An AssignOrder; truck_id = None stands for "no decision"
AssignOrder(o, t, opened_new, step) ==
    [order_id |-> o, truck_id |-> t, opened_new_truck |-> opened_new, rationale |-> step]

NoDecision(o) == AssignOrder(o, None, FALSE, "none")

\* assign_to_best_reefer: the decisions it can return
assign_to_best_reefer(o, ranking_scheme) ==
    {IF tid # None THEN AssignOrder(o, tid, FALSE, "open reefer")
     ELSE LET new == maybe_open_new_reefer(o)
          IN  IF new = None THEN NoDecision(o)
              ELSE AssignOrder(o, new, TRUE, "new reefer")
     : tid \in choose_best_open_reefer(o, ranking_scheme)}

(***************************************************************************)
(* best_fit_dry                                                            *)
(***************************************************************************)

\* _residual_key_dry
_residual_key_dry(o, t, scheme) ==
    IF \E i \in DOMAIN scheme : Resid(t, scheme[i]) - Demand(o, scheme[i]) < 0
    THEN [ok |-> FALSE, key |-> <<>>]
    ELSE [ok |-> TRUE,
          key |-> [i \in DOMAIN scheme |-> Resid(t, scheme[i]) - Demand(o, scheme[i])]]

\* The loop of choose_best_open_dry over one iteration order
RECURSIVE ScanDry(_, _, _, _)
ScanDry(it, o, scheme, best) ==
    IF it = <<>> THEN best
    ELSE LET tid == Head(it)
             k   == _residual_key_dry(o, tid, scheme)
         IN  IF ~fits_order_on_truck(o, tid) THEN ScanDry(Tail(it), o, scheme, best)
             ELSE IF ~k.ok THEN ScanDry(Tail(it), o, scheme, best)
             ELSE IF best = None \/ TupleLess(k.key, _residual_key_dry(o, best, scheme).key)
                  THEN ScanDry(Tail(it), o, scheme, tid)
                  ELSE ScanDry(Tail(it), o, scheme, best)

\* choose_best_open_dry: the truck ids it can return
choose_best_open_dry(o, scheme) ==
    {ScanDry(it, o, scheme, None) : it \in open_trucks("dry")}

\* maybe_open_new_dry
maybe_open_new_dry(o) ==
    IF ~GetAttr(policy, "allow_open_new_dry_B", FALSE) THEN None
    ELSE LET candidates == all_available_trucks("dry") \ OpenIds("dry")
             order_has_cold == GetAttr(order_features(o), "cold_volume_m3", 0) > 0
             feasible == {t \in candidates :
                             /\ fits_order_on_truck(o, t)
                             /\ order_has_cold => cooler_feasible(o, t)}
         IN  IF feasible = {} THEN None
             ELSE CHOOSE t \in feasible : \A u \in feasible : t <= u

\* Steps 2 and 3 of assign_bucket_b_order, which are also assign_bucket_c_order
\* up to the rationale text: open dry, else maybe a new dry.  Neither passes
\* opened_new_truck, so the AssignOrder default False stays.
DryDecisions(o, dry_scheme) ==
    {IF dry_tid # None THEN AssignOrder(o, dry_tid, FALSE, "open dry")
     ELSE LET new == maybe_open_new_dry(o)
          IN  IF new = None THEN NoDecision(o)
              ELSE AssignOrder(o, new, FALSE, "new dry")
     : dry_tid \in choose_best_open_dry(o, dry_scheme)}

\* assign_bucket_b_order whose reefer step is the whole bucket-A placer, which
\* may open a new reefer
assign_bucket_b_order_via_placer_A(o, reefer_scheme, dry_scheme) ==
    UNION {IF d.truck_id # None THEN {d} ELSE DryDecisions(o, dry_scheme)
           : d \in assign_to_best_reefer(o, reefer_scheme)}

\* assign_bucket_b_order: the decisions it can return
assign_bucket_b_order(o, reefer_scheme, dry_scheme) ==
    UNION {IF reefer_tid # None
           THEN {AssignOrder(o, reefer_tid, FALSE, "open reefer")}
           ELSE DryDecisions(o, dry_scheme)
           : reefer_tid \in choose_best_open_reefer(o, reefer_scheme)}

\* assign_bucket_c_order: the decisions it can return
assign_bucket_c_order(o, dry_scheme) == DryDecisions(o, dry_scheme)

(***************************************************************************)
(* KPI formulas used by the ledger (utilisations in percent, rounded down) *)
(***************************************************************************)

\* u_vol_k: 0 if Q <= EPS, else used / Q clamped to [0, 1]
u_vol_k(loaded_v_eff, Q_k) ==
    IF Q_k <= 0 THEN 0
    ELSE Max(0, IF loaded_v_eff >= Q_k THEN 100 ELSE (100 * loaded_v_eff) \div Q_k)

\* u_w_k: 0 if W <= EPS, else used / W floored at 0 (not clamped above)
u_w_k(loaded_w, W_k) ==
    IF W_k <= 0 THEN 0 ELSE Max(0, (100 * loaded_w) \div W_k)

\* u_cold_k
u_cold_k(loaded_q_cold, Q_k_cold) ==
    IF Q_k_cold <= 0 THEN 0
    ELSE Max(0, IF loaded_q_cold >= Q_k_cold THEN 100 ELSE (100 * loaded_q_cold) \div Q_k_cold)

\* u_bn_k
u_bn_k(u_vol, u_w) == IF u_vol <= u_w THEN u_vol ELSE u_w

(***************************************************************************)
(* DayTracker: each method as a function from the tracker to the tracker   *)
(***************************************************************************)

\* DayTracker.__init__
NewTracker ==
    [trucks |-> <<>>, orders |-> <<>>,
     opened_trucks |-> {}, departed_trucks |-> {}, cold_on_dry_pairs |-> {},
     sum_q |-> 0, sum_v_eff |-> 0, sum_w |-> 0, c_total |-> 0,
     n_missed_vip |-> 0, n_missed_due |-> 0,
     order_queue_log |-> <<>>, item_queue_log |-> <<>>,
     order_queue_meta |-> <<>>, item_queue_meta |-> <<>>]

\* DayTracker.open_truck raises ValueError
open_truck_raises(tr, t) == t \in DOMAIN tr.trucks

\* open_truck that creates the ledger without flagging the truck as opened
open_truck_unflagged(tr, t, is_reefer, Q, Q_cold, W, fixed_cost, tau_min) ==
    IF t \in DOMAIN tr.trucks THEN tr
    ELSE [tr EXCEPT
            !.trucks = (t :> [is_reefer |-> is_reefer, Q |-> Q, Q_cold |-> Q_cold,
                              W |-> W, fixed_cost |-> fixed_cost, tau_min |-> tau_min,
                              used_v_eff |-> 0, used_q |-> 0, used_q_cold |-> 0,
                              used_w |-> 0, cooler_used_m3 |-> 0, opened |-> FALSE,
                              departed |-> FALSE, departure_time |-> "None",
                              u_vol_at_departure |-> -1, u_w_at_departure |-> -1,
                              u_cold_at_departure |-> -1, u_bn_at_departure |-> -1])
                       @@ tr.trucks,
            !.c_total = @ + fixed_cost]

\* DayTracker.open_truck; when it raises nothing is changed.  The keys that
\* on_departure adds later are carried from the start with the value a
\* dict.get default gives them (departed False, the rest unset = -1 / "None").
open_truck(tr, t, is_reefer, Q, Q_cold, W, fixed_cost, tau_min) ==
    IF open_truck_raises(tr, t) THEN tr
    ELSE [tr EXCEPT
            !.trucks = (t :> [is_reefer |-> is_reefer, Q |-> Q, Q_cold |-> Q_cold,
                              W |-> W, fixed_cost |-> fixed_cost, tau_min |-> tau_min,
                              used_v_eff |-> 0, used_q |-> 0, used_q_cold |-> 0,
                              used_w |-> 0, cooler_used_m3 |-> 0, opened |-> TRUE,
                              departed |-> FALSE, departure_time |-> "None",
                              u_vol_at_departure |-> -1, u_w_at_departure |-> -1,
                              u_cold_at_departure |-> -1, u_bn_at_departure |-> -1])
                       @@ tr.trucks,
            !.opened_trucks = @ \cup {t},
            !.c_total = @ + fixed_cost]

\* DayTracker.on_assign raises KeyError
on_assign_raises(tr, t) == t \notin DOMAIN tr.trucks

\* DayTracker.on_assign; due_met is "None", "True" or "False"
on_assign(tr, o, t, q, q_cold, w, v_eff, is_vip, due_met, delay_min, cold_on_dry) ==
    IF on_assign_raises(tr, t) THEN tr
    ELSE
    LET rec0 == IF o \in DOMAIN tr.orders THEN tr.orders[o]
                ELSE [q |-> q, q_cold |-> q_cold, w |-> w, v_eff |-> v_eff,
                      is_vip |-> is_vip, assigned_truck_count |-> 0,
                      due_met |-> due_met, delay_min |-> delay_min,
                      placed |-> TRUE, reason |-> "None"]
        rec  == [rec0 EXCEPT !.assigned_truck_count = @ + 1]
    IN  [tr EXCEPT
            !.trucks[t].used_q = @ + q,
            !.trucks[t].used_q_cold = @ + q_cold,
            !.trucks[t].used_w = @ + w,
            !.trucks[t].used_v_eff = @ + v_eff,
            !.orders = (o :> rec) @@ tr.orders,
            !.sum_q = @ + q,
            !.sum_v_eff = @ + v_eff,
            !.sum_w = @ + w,
            !.n_missed_vip = IF is_vip /\ due_met = "False" THEN @ + 1 ELSE @,
            !.n_missed_due = IF due_met = "False" THEN @ + 1 ELSE @,
            !.cold_on_dry_pairs = IF cold_on_dry THEN @ \cup {<<o, t>>} ELSE @]

\* DayTracker.on_failure
on_failure(tr, o, is_vip, due_missed, delay_min, reason) ==
    LET rec0 == IF o \notin DOMAIN tr.orders
                THEN [q |-> 0, q_cold |-> 0, w |-> 0, v_eff |-> 0,
                      is_vip |-> is_vip, assigned_truck_count |-> 0,
                      due_met |-> "None", delay_min |-> "None",
                      placed |-> FALSE, reason |-> reason]
                ELSE [tr.orders[o] EXCEPT
                        !.placed = FALSE,
                        !.reason = reason,
                        !.is_vip = is_vip \/ tr.orders[o].is_vip]
        rec  == IF due_missed
                THEN [rec0 EXCEPT !.due_met = "False", !.delay_min = delay_min]
                ELSE rec0
    IN  [tr EXCEPT
            !.orders = (o :> rec) @@ tr.orders,
            !.n_missed_due = IF due_missed THEN @ + 1 ELSE @,
            !.n_missed_vip = IF due_missed /\ is_vip THEN @ + 1 ELSE @]

\* DayTracker.on_departure raises KeyError
on_departure_raises(tr, t) == t \notin DOMAIN tr.trucks

\* on_departure that also clears the departed truck's loads
on_departure_clearing_loads(tr, t, when) ==
    IF on_departure_raises(tr, t) THEN tr
    ELSE IF tr.trucks[t].departed THEN tr
    ELSE [tr EXCEPT
            !.trucks[t].used_v_eff = 0,
            !.trucks[t].used_w = 0,
            !.trucks[t].used_q_cold = 0,
            !.trucks[t].departure_time = when,
            !.trucks[t].departed = TRUE,
            !.departed_trucks = @ \cup {t}]

\* on_departure without the early return for a truck that has departed
on_departure_restamping(tr, t, when) ==
    IF t \notin DOMAIN tr.trucks THEN tr
    ELSE LET l    == tr.trucks[t]
             uvol == u_vol_k(l.used_v_eff, l.Q)
             uw   == u_w_k(l.used_w, l.W)
             uc   == u_cold_k(l.used_q_cold, l.Q_cold)
         IN  [tr EXCEPT
                !.trucks[t].u_vol_at_departure = uvol,
                !.trucks[t].u_w_at_departure = uw,
                !.trucks[t].u_cold_at_departure = uc,
                !.trucks[t].u_bn_at_departure = u_bn_k(uvol, uw),
                !.trucks[t].departure_time = when,
                !.trucks[t].departed = TRUE,
                !.departed_trucks = @ \cup {t}]

\* DayTracker.on_departure
on_departure(tr, t, when) ==
    IF on_departure_raises(tr, t) THEN tr
    ELSE IF tr.trucks[t].departed THEN tr
    ELSE LET l    == tr.trucks[t]
             uvol == u_vol_k(l.used_v_eff, l.Q)
             uw   == u_w_k(l.used_w, l.W)
             uc   == u_cold_k(l.used_q_cold, l.Q_cold)
         IN  [tr EXCEPT
                !.trucks[t].u_vol_at_departure = uvol,
                !.trucks[t].u_w_at_departure = uw,
                !.trucks[t].u_cold_at_departure = uc,
                !.trucks[t].u_bn_at_departure = u_bn_k(uvol, uw),
                !.trucks[t].departure_time = when,
                !.trucks[t].departed = TRUE,
                !.departed_trucks = @ \cup {t}]

\* cap_violation_flag: each limit counts only when the capacity itself is
\* above EPS
cap_violation_flag(loaded_v_eff, Q_k, loaded_w, W_k, loaded_q_cold, Q_k_cold) ==
    LET v_bad == Q_k > 0 /\ loaded_v_eff - Q_k > 0
        w_bad == W_k > 0 /\ loaded_w - W_k > 0
        c_bad == Q_k_cold > 0 /\ loaded_q_cold - Q_k_cold > 0
    IN  IF v_bad \/ w_bad \/ c_bad THEN 1 ELSE 0

\* n_trucks_opened over the opened flags summarize_day collects: one per
\* ledger truck whose opened flag is set
n_trucks_opened(tr) == Cardinality({t \in DOMAIN tr.trucks : tr.trucks[t].opened})

\* miss_vip
miss_vip(n_missed_vip) == n_missed_vip

\* DayTracker.summarize_day: the per-truck rows (by truck id) and the fleet
\* KPIs that are read here
summarize_day(tr) ==
    [per_truck |->
        [t \in {k \in DOMAIN tr.trucks : tr.trucks[k].opened} |->
            LET l == tr.trucks[t]
            IN  [truck_id |-> t, Q |-> l.Q, Q_cold |-> l.Q_cold, W |-> l.W,
                 used_v_eff |-> l.used_v_eff, used_q_cold |-> l.used_q_cold,
                 used_w |-> l.used_w,
                 cap_violation |-> cap_violation_flag(l.used_v_eff, l.Q, l.used_w, l.W,
                                                      l.used_q_cold, l.Q_cold)]],
     fleet |->
        [N_trucks |-> n_trucks_opened(tr),
         MISS_VIP |-> miss_vip(tr.n_missed_vip),
         MISS_DUE |-> tr.n_missed_due,
         COLD_ON_DRY |-> Cardinality(tr.cold_on_dry_pairs)]]

(***************************************************************************)
(* PlacerOrchestrator                                                      *)
(***************************************************************************)

\* The dataclass defaults of the four ranking schemes
reefer_scheme_A == <<"cold", "volume", "weight">>
reefer_scheme_B == <<"cold", "volume", "weight">>
dry_scheme_B == <<"volume", "weight">>
dry_scheme_C == <<"volume", "weight">>

\* determine_bucket; alpha in percent, the 1e-12 guard lies below the grid
determine_bucket(alpha_i, alpha_threshold) ==
    IF alpha_i <= 0 THEN "C"
    ELSE IF alpha_i >= alpha_threshold THEN "A"
    ELSE "B"

\* The bucket run_one computes from the feature view it is handed
RunOneBucket(o) ==
    LET f == order_features(o)
    IN  determine_bucket(IF HasAttr(f, "cold_fraction") THEN f["cold_fraction"] ELSE 0,
                         policy.alpha_threshold)

\* run_one dispatching bucket C to the bucket-B placer
RunOneDecisions_C_to_placer_B(o) ==
    LET bucket == RunOneBucket(o)
    IN  IF bucket = "A" THEN assign_to_best_reefer(o, reefer_scheme_A)
        ELSE assign_bucket_b_order(o, reefer_scheme_B, dry_scheme_B)

\* The decisions the placer run_one dispatches to can return
RunOneDecisions(o) ==
    LET bucket == RunOneBucket(o)
    IN  IF bucket = "A" THEN assign_to_best_reefer(o, reefer_scheme_A)
        ELSE IF bucket = "B" THEN assign_bucket_b_order(o, reefer_scheme_B, dry_scheme_B)
        ELSE assign_bucket_c_order(o, dry_scheme_C)

\* _ensure_tracker_truck_open that charges the fixed cost at every assignment
_ensure_tracker_truck_open_recharging(tr, t) ==
    IF tr.trucks # <<>> /\ t \in DOMAIN tr.trucks
    THEN [tr EXCEPT !.c_total = @ + Fleet[t].fixed_cost]
    ELSE open_truck(tr, t,
                    TypeStrLower(t) \in {"reefer", "trucktype.reefer"},
                    Fleet[t].total_capacity_m3, Fleet[t].cold_capacity_m3,
                    Fleet[t].weight_limit_kg, Fleet[t].fixed_cost,
                    Fleet[t].min_utilization)

\* PlacerOrchestrator._ensure_tracker_truck_open
_ensure_tracker_truck_open(tr, t) ==
    IF tr.trucks # <<>> /\ t \in DOMAIN tr.trucks THEN tr
    ELSE open_truck(tr, t,
                    TypeStrLower(t) \in {"reefer", "trucktype.reefer"},
                    Fleet[t].total_capacity_m3, Fleet[t].cold_capacity_m3,
                    Fleet[t].weight_limit_kg, Fleet[t].fixed_cost,
                    Fleet[t].min_utilization)

\* PlacerOrchestrator.apply_decision without a commit_hook: the depot's
\* trucks, the state view's open set and the tracker after the commit
apply_decision(d) ==
    LET o      == d.order_id
        t      == d.truck_id
        f      == order_features(o)
        tr0    == _ensure_tracker_truck_open(tracker, t)
        v_eff  == GetAttr(f, "effective_volume_m3", 0)
        q_cold == GetAttr(f, "cold_volume_m3", 0)
        w      == GetAttr(f, "weight_kg", 0)
        q      == GetAttr(f, "volume_m3", 0)
        is_dry == truck_features(t).type = "dry"
        tr1    == IF is_dry /\ q_cold > 0
                  THEN [tr0 EXCEPT !.trucks[t].cooler_used_m3 = @ + q_cold]
                  ELSE tr0
    IN  [trucks |->
            [trucks EXCEPT
                ![t].used_volume_m3 = @ + v_eff,
                ![t].used_weight_kg = @ + w,
                ![t].used_cold_m3 = @ + q_cold,
                ![t].assigned_orders = Append(@, o),
                ![t].used_cooler_m3 =
                    IF q_cold > 0 /\ TypeStrLower(t) = "dry" THEN @ + q_cold ELSE @],
         open |-> open \cup {t},
         tracker |->
            on_assign(tr1, o, t, q, q_cold, w, v_eff,
                      GetAttr(f, "vip", FALSE), "None", "None",
                      q_cold > 0 /\ truck_features(t).type = "dry")]

\* DepartSet with a strict threshold under min_util
DepartSet_strictly_above(strategy, min_util_slack) ==
    {t \in DOMAIN tracker.trucks :
        LET l == tracker.trucks[t]
        IN  /\ ~l.departed
            /\ l.opened
            /\ \/ strategy = "time"
               \/ /\ strategy = "min_util"
                  /\ 100 * l.used_v_eff > (l.tau_min + min_util_slack) * l.Q}

\* The trucks one sweep of maybe_depart_trucks departs
DepartSet(strategy, min_util_slack) ==
    {t \in DOMAIN tracker.trucks :
        LET l == tracker.trucks[t]
        IN  /\ ~l.departed
            /\ l.opened
            /\ \/ strategy = "time"
               \/ /\ strategy = "min_util"
                  /\ IF l.Q <= 0 THEN 0 >= l.tau_min + min_util_slack
                     ELSE 100 * l.used_v_eff >= (l.tau_min + min_util_slack) * l.Q}

RECURSIVE DepartAll(_, _, _)
DepartAll(tr, S, when) ==
    IF S = {} THEN tr
    ELSE LET t == CHOOSE x \in S : TRUE
         IN  DepartAll(on_departure(tr, t, when), S \ {t}, when)

\* PlacerOrchestrator.maybe_depart_trucks: the tracker afterwards
maybe_depart_trucks(strategy, min_util_slack, depart_time) ==
    IF strategy = "none" THEN tracker
    ELSE DepartAll(tracker, DepartSet(strategy, min_util_slack),
                   IF strategy = "time" THEN depart_time ELSE "None")

(***************************************************************************)
(* Phase 1: SelectionState, OrderLevelSelector, ItemLevelSorter            *)
(*                                                                         *)
(* Order ids and item ids are the integers n standing for the strings      *)
(* "O<n>" / "I<n>" of one digit, whose lexicographic order is the integer  *)
(* order.  due_dt is in minutes after midnight, padding_factor in percent. *)
(***************************************************************************)

\* How many dimensions the schemes tried have at most
MaxSchemeLen == 2

\* How many orders (item lines) are ranked at most
MaxRanked == 3

\* SelectionState._orders joined with SelectionState._customers
SelectionOrders ==
    1 :> [vip |-> TRUE,  due_dt |-> 540, cold_fraction |-> 0,
          effective_volume_m3 |-> 2, weight_kg |-> 2, item_list |-> <<1, 2>>] @@
    2 :> [vip |-> FALSE, due_dt |-> 540, cold_fraction |-> 50,
          effective_volume_m3 |-> 2, weight_kg |-> 1, item_list |-> <<3>>] @@
    3 :> [vip |-> FALSE, due_dt |-> 605, cold_fraction |-> 50,
          effective_volume_m3 |-> 1, weight_kg |-> 1, item_list |-> <<5, 4, 1>>] @@
    4 :> [vip |-> TRUE,  due_dt |-> 605, cold_fraction |-> 0,
          effective_volume_m3 |-> 1, weight_kg |-> 2, item_list |-> <<>>]

SelectionOrderIds == DOMAIN SelectionOrders

\* SelectionState._items, each with the quantity the order lines carry
SelectionItems ==
    1 :> [qty |-> 2, unit_weight_kg |-> 1, unit_volume_m3 |-> 1, padding_factor |-> 0,
          category_cold |-> TRUE,  is_liquid |-> FALSE, max_stack_load_kg |-> 5,
          fragility |-> "Fragility.REGULAR",  upright_only |-> FALSE,
          separation_tag |-> "Food"] @@
    2 :> [qty |-> 1, unit_weight_kg |-> 2, unit_volume_m3 |-> 1, padding_factor |-> 100,
          category_cold |-> FALSE, is_liquid |-> TRUE,  max_stack_load_kg |-> 5,
          fragility |-> "Fragility.DELICATE", upright_only |-> FALSE,
          separation_tag |-> "Non-Food"] @@
    3 :> [qty |-> 1, unit_weight_kg |-> 1, unit_volume_m3 |-> 0, padding_factor |-> 0,
          category_cold |-> TRUE,  is_liquid |-> FALSE, max_stack_load_kg |-> 3,
          fragility |-> "Fragility.FRAGILE",  upright_only |-> TRUE,
          separation_tag |-> "Allergen"] @@
    4 :> [qty |-> 3, unit_weight_kg |-> 1, unit_volume_m3 |-> 1, padding_factor |-> 0,
          category_cold |-> FALSE, is_liquid |-> TRUE,  max_stack_load_kg |-> 3,
          fragility |-> "Fragility.REGULAR",  upright_only |-> TRUE,
          separation_tag |-> "Food"] @@
    5 :> [qty |-> 1, unit_weight_kg |-> 3, unit_volume_m3 |-> 1, padding_factor |-> 0,
          category_cold |-> TRUE,  is_liquid |-> TRUE,  max_stack_load_kg |-> 5,
          fragility |-> "Fragility.DELICATE", upright_only |-> FALSE,
          separation_tag |-> "Hazardous"]

SelectionItemIds == DOMAIN SelectionItems

\* SelectionState.order_features(order_id)
selection_order_features(oid) ==
    LET o == SelectionOrders[oid]
    IN  [vip |-> o.vip, due_dt |-> o.due_dt, cold_fraction |-> o.cold_fraction,
         effective_volume_m3 |-> o.effective_volume_m3, weight_kg |-> o.weight_kg]

\* SelectionState.item_features(order_id): the item ids in item_list order
item_features(oid) == SelectionOrders[oid].item_list

\* Item.effective_unit_volume()
effective_unit_volume(item) ==
    (item.unit_volume_m3 * (100 + Max(0, item.padding_factor))) \div 100

\* The dimensions OrderLevelSelector.__init__ allows
allowed_order_dims == {"vip", "due", "alpha", "v_eff", "weight", "order_id"}

\* The dimensions ItemLevelSorter.__init__ allows
allowed_item_dims ==
    {"cold", "weight", "v_eff", "liquid", "stack_limit", "fragile", "upright", "item_id"}

\* A validation that only knows about unknown dimensions
RECURSIVE scheme_raises_unknown_only(_, _, _)
scheme_raises_unknown_only(scheme, allowed, seen) ==
    IF scheme = <<>> THEN FALSE
    ELSE Head(scheme) \notin allowed
            \/ scheme_raises_unknown_only(Tail(scheme), allowed, seen)

\* The validation loop both constructors run over the scheme with the dimensions
\* seen so far: TRUE iff it raises ValueError
RECURSIVE scheme_raises(_, _, _)
scheme_raises(scheme, allowed, seen) ==
    IF scheme = <<>> THEN FALSE
    ELSE LET d == Head(scheme)
         IN  \/ d \notin allowed
             \/ d \in seen
             \/ scheme_raises(Tail(scheme), allowed, seen \cup {d})

\* OrderLevelSelector(scheme=...) raises ValueError
OrderLevelSelector_raises(scheme) == scheme_raises(scheme, allowed_order_dims, {})

\* ItemLevelSorter(scheme=...) raises ValueError
ItemLevelSorter_raises(scheme) == scheme_raises(scheme, allowed_item_dims, {})

\* int(vip)
IntOfBool(b) == IF b THEN 1 ELSE 0

\* An order key whose due part puts the later time first
order_key_part_due_latest_first(dim, oid, vip, due, alpha, v_eff, weight) ==
    CASE dim = "vip"      -> 0 - IntOfBool(vip)
      [] dim = "due"      -> 0 - due
      [] dim = "alpha"    -> 0 - alpha
      [] dim = "v_eff"    -> 0 - v_eff
      [] dim = "weight"   -> 0 - weight
      [] dim = "order_id" -> oid

\* One element of the order key
order_key_part(dim, oid, vip, due, alpha, v_eff, weight) ==
    CASE dim = "vip"      -> 0 - IntOfBool(vip)
      [] dim = "due"      -> due
      [] dim = "alpha"    -> 0 - alpha
      [] dim = "v_eff"    -> 0 - v_eff
      [] dim = "weight"   -> 0 - weight
      [] dim = "order_id" -> oid

\* OrderLevelSelector._make_sort_key
_make_sort_key(scheme, oid, vip, due, alpha, v_eff, weight) ==
    [i \in 1..Len(scheme) |-> order_key_part(scheme[i], oid, vip, due, alpha, v_eff, weight)]

\* list.sort(key=...) is stable: a row goes behind every row whose key is not
\* greater than its own
RECURSIVE InsertByKey(_, _)
InsertByKey(sorted, r) ==
    IF sorted = <<>> THEN <<r>>
    ELSE IF TupleLess(r.sort_key, Head(sorted).sort_key) THEN <<r>> \o sorted
    ELSE <<Head(sorted)>> \o InsertByKey(Tail(sorted), r)

RECURSIVE SortByKey(_)
SortByKey(rows) ==
    IF rows = <<>> THEN <<>>
    ELSE InsertByKey(SortByKey(SubSeq(rows, 1, Len(rows) - 1)), rows[Len(rows)])

\* due.strftime("%H:%M"), as the pair of the two numbers printed
strftime_HM(due) == <<due \div 60, due % 60>>

\* OrderLevelSelector.rank_orders(state) for state.remaining_orders() = remaining:
\* the rows of last_rank
rank_orders(scheme, remaining) ==
    LET rows == [i \in 1..Len(remaining) |->
                    LET oid == remaining[i]
                        f == selection_order_features(oid)
                    IN  [order_id |-> oid, vip |-> f.vip, due |-> f.due_dt,
                         alpha |-> f.cold_fraction, v_eff |-> f.effective_volume_m3,
                         weight |-> f.weight_kg,
                         sort_key |-> _make_sort_key(scheme, oid, f.vip, f.due_dt,
                                                     f.cold_fraction,
                                                     f.effective_volume_m3, f.weight_kg)]]
        sorted == SortByKey(rows)
    IN  [i \in 1..Len(sorted) |->
            [rank |-> i, order_id |-> sorted[i].order_id, vip |-> sorted[i].vip,
             due |-> strftime_HM(sorted[i].due), alpha |-> sorted[i].alpha,
             v_eff |-> sorted[i].v_eff, weight |-> sorted[i].weight,
             sort_key |-> sorted[i].sort_key]]

\* str(item.fragility).lower(): the words looked for that the text contains
frag_text_words(fragility) ==
    CASE fragility = "Fragility.REGULAR"  -> {}
      [] fragility = "Fragility.DELICATE" -> {"delicate"}
      [] fragility = "Fragility.FRAGILE"  -> {"fragile"}

\* A score that finds "fragile" in the class name every text starts with
fragile_score_from_class_name(fragility) == 2

\* The fragility score of rank_items
fragile_score(fragility) ==
    LET frag_text == frag_text_words(fragility)
    IN  IF "fragile" \in frag_text /\ "very" \in frag_text THEN 2
        ELSE IF "fragile" \in frag_text THEN 2
        ELSE IF "delicate" \in frag_text THEN 1
        ELSE 0

\* The raw row rank_items builds for one (item, qty) pair
item_row_raw(iid) ==
    LET item == SelectionItems[iid]
        qty == item.qty
    IN  [item_id |-> iid, qty |-> qty,
         cold01 |-> IF item.category_cold /\ item.unit_volume_m3 * qty > 0 THEN 1 ELSE 0,
         w_ij |-> qty * item.unit_weight_kg,
         v_ij_eff |-> qty * effective_unit_volume(item),
         liquid01 |-> IntOfBool(item.is_liquid),
         stack_limit |-> item.max_stack_load_kg,
         fragile_score |-> fragile_score(item.fragility),
         upright01 |-> IntOfBool(item.upright_only)]

\* One element of the item key
item_key_part(dim, r) ==
    CASE dim = "cold"        -> 0 - r.cold01
      [] dim = "weight"      -> 0 - r.w_ij
      [] dim = "v_eff"       -> 0 - r.v_ij_eff
      [] dim = "liquid"      -> 0 - r.liquid01
      [] dim = "stack_limit" -> 0 - r.stack_limit
      [] dim = "fragile"     -> r.fragile_score
      [] dim = "upright"     -> r.upright01
      [] dim = "item_id"     -> r.item_id

\* ItemLevelSorter._make_sort_key_tuple
_make_sort_key_tuple(scheme, r) ==
    [i \in 1..Len(scheme) |-> item_key_part(scheme[i], r)]

\* ItemLevelSorter.rank_items for the (item, qty) pairs feats: the rows of
\* last_rank_rows (the ItemRank list returned is these rows without rank and key)
rank_items(scheme, feats) ==
    LET keyed == [i \in 1..Len(feats) |->
                    LET r == item_row_raw(feats[i])
                    IN  [row |-> r, sort_key |-> _make_sort_key_tuple(scheme, r)]]
        sorted == SortByKey(keyed)
    IN  [i \in 1..Len(sorted) |->
            [rank |-> i, sort_key |-> sorted[i].sort_key] @@ sorted[i].row]

(***************************************************************************)
(* Phase 1: the queue logs of the DayTracker and SelectionOrchestrator     *)
(***************************************************************************)

\* DayTracker.record_order_queue(ranked_rows, order_scheme=..., run_id=..., reset=...)
record_order_queue(tr, ranked_rows, order_scheme, run_id, reset) ==
    LET cleared == IF reset THEN <<>> ELSE tr.order_queue_log
        appended == [i \in 1..Len(ranked_rows) |->
                        [run_id |-> run_id, rank |-> ranked_rows[i].rank,
                         order_id |-> ranked_rows[i].order_id, vip |-> ranked_rows[i].vip,
                         due |-> ranked_rows[i].due, alpha |-> ranked_rows[i].alpha,
                         v_eff |-> ranked_rows[i].v_eff, weight |-> ranked_rows[i].weight,
                         sort_key |-> ranked_rows[i].sort_key]]
    IN  [tr EXCEPT
            !.order_queue_log = cleared \o appended,
            !.order_queue_meta = [selector |-> "order_level_selector",
                                  scheme |-> order_scheme, run_id |-> run_id]]

\* DayTracker.record_item_queue(order_id, ranked_rows, item_scheme=..., run_id=..., reset=...)
record_item_queue(tr, order_id, ranked_rows, item_scheme, run_id, reset) ==
    LET out == IF reset \/ order_id \notin DOMAIN tr.item_queue_log
               THEN <<>> ELSE tr.item_queue_log[order_id]
        appended == [i \in 1..Len(ranked_rows) |->
                        [run_id |-> run_id, order_id |-> order_id,
                         rank |-> ranked_rows[i].rank, item_id |-> ranked_rows[i].item_id,
                         qty |-> ranked_rows[i].qty, cold01 |-> ranked_rows[i].cold01,
                         w_ij |-> ranked_rows[i].w_ij, v_ij_eff |-> ranked_rows[i].v_ij_eff,
                         liquid01 |-> ranked_rows[i].liquid01,
                         stack_limit |-> ranked_rows[i].stack_limit,
                         fragile_score |-> ranked_rows[i].fragile_score,
                         upright01 |-> ranked_rows[i].upright01,
                         sort_key |-> ranked_rows[i].sort_key]]
    IN  [tr EXCEPT
            !.item_queue_log = (order_id :> (out \o appended)) @@ tr.item_queue_log,
            !.item_queue_meta = [sorter |-> "item_level_sorter",
                                 scheme |-> item_scheme, run_id |-> run_id]]

\* The item_rows SelectionOrchestrator.run builds from the ranked items of one
\* order; its sort_key is the empty string
item_rows(ranked_items) ==
    [idx \in 1..Len(ranked_items) |->
        [rank |-> idx, item_id |-> ranked_items[idx].item_id, qty |-> ranked_items[idx].qty,
         cold01 |-> ranked_items[idx].cold01, w_ij |-> ranked_items[idx].w_ij,
         v_ij_eff |-> ranked_items[idx].v_ij_eff, liquid01 |-> ranked_items[idx].liquid01,
         stack_limit |-> ranked_items[idx].stack_limit,
         fragile_score |-> ranked_items[idx].fragile_score,
         upright01 |-> ranked_items[idx].upright01,
         sep_tag |-> "Non-Food", sort_key |-> ""]]

\* The loop of SelectionOrchestrator.run over the ranked orders: the tracker
\* after the item queue of each has been recorded
RECURSIVE record_ranked_items(_, _, _, _)
record_ranked_items(tr, ranked_orders, item_scheme, run_id) ==
    IF ranked_orders = <<>> THEN tr
    ELSE LET order_id == Head(ranked_orders).order_id
             ranked_items == rank_items(item_scheme, item_features(order_id))
         IN  record_ranked_items(
                 record_item_queue(tr, order_id, item_rows(ranked_items),
                                   item_scheme, run_id, FALSE),
                 Tail(ranked_orders), item_scheme, run_id)

\* SelectionOrchestrator.run(run_id=..., reset_logs=...) of orchestrator so on
\* tracker tr: the tracker afterwards and the ordered ids returned
selection_run(so, tr, run_id, reset_logs) ==
    LET ranked_orders == rank_orders(so.order_scheme, so.remaining)
        recorded == record_order_queue(tr, ranked_orders, so.order_scheme,
                                       run_id, reset_logs)
    IN  [tracker |-> record_ranked_items(recorded, ranked_orders, so.item_scheme, run_id),
         ordered_ids |-> [i \in 1..Len(ranked_orders) |-> ranked_orders[i].order_id]]

\* ORDER_SCHEME and ITEM_SCHEME of scripts/run.py
ORDER_SCHEME == <<"vip", "due", "alpha", "v_eff">>

ITEM_SCHEME == <<"cold", "weight", "v_eff", "liquid", "stack_limit", "fragile", "upright">>

\* The default schemes of the two selectors
DefaultOrderScheme == <<"vip", "due", "alpha", "v_eff", "order_id">>

DefaultItemScheme ==
    <<"cold", "weight", "v_eff", "liquid", "stack_limit", "fragile", "upright", "item_id">>

\* SelectionOrchestrator(state, tracker, order_selector, item_sorter) over the
\* orders of remaining; runs counts the calls of run so far
SelectionOrchestrator(order_scheme, item_scheme, remaining) ==
    [order_scheme |-> order_scheme, item_scheme |-> item_scheme, remaining |-> remaining,
     _order_queue_ids |-> <<>>, runs |-> 0]

\* run_many(order_ids) before its first order: the queue, the position of the
\* order processed next and the decisions collected
RunMany(order_ids) == [queue |-> order_ids, k |-> 1, decisions |-> <<>>]

(***************************************************************************)
(* The calls a driver makes                                                *)
(***************************************************************************)

\* A PlacerOrchestrator as its constructor leaves it: the dataclass fields
\* only, no attribute added
NoAttributes == [a \in {} |-> 0]

\* PlacerOrchestrator.set_alpha_threshold: self.alpha_threshold = float(alpha).
\* The threshold is a percentage here, and float() keeps the value of a number.
set_alpha_threshold(orch, alpha) ==
    [a \in DOMAIN orch \cup {"alpha_threshold"} |->
        IF a = "alpha_threshold" THEN alpha ELSE orch[a]]

\* What the last call was and what it returned
Ret(fn, d, bucket, departed) ==
    [fn |-> fn, order_id |-> d.order_id, truck_id |-> d.truck_id,
     opened_new_truck |-> d.opened_new_truck, rationale |-> d.rationale,
     bucket |-> bucket, departed |-> departed]

\* The policies a day can be run with.  Policy is duck-typed: the placers read
\* allow_open_new_dry_B with getattr, so the third policy, which like the one
\* scripts/run.py configures carries allow_open_new_dry_C and no
\* allow_open_new_dry_B, behaves as one that has allow_open_new_dry_B False.
Policies ==
    {[alpha_threshold |-> 60, per_truck_cooler_m3 |-> 1,
      allow_open_new_reefer_A |-> TRUE, allow_cold_in_dry_B |-> TRUE,
      allow_open_new_dry_B |-> TRUE, allow_open_new_dry_C |-> TRUE],
     [alpha_threshold |-> 60, per_truck_cooler_m3 |-> 1,
      allow_open_new_reefer_A |-> FALSE, allow_cold_in_dry_B |-> FALSE,
      allow_open_new_dry_B |-> TRUE, allow_open_new_dry_C |-> TRUE],
     [alpha_threshold |-> 60, per_truck_cooler_m3 |-> 1,
      allow_open_new_reefer_A |-> TRUE, allow_cold_in_dry_B |-> TRUE,
      allow_open_new_dry_C |-> TRUE]}

Init ==
    /\ trucks = [t \in TruckIds |->
                    [used_volume_m3 |-> 0, used_cold_m3 |-> 0, used_weight_kg |-> 0,
                     assigned_orders |-> <<>>, used_cooler_m3 |-> 0]]
    /\ open = {}
    /\ tracker = NewTracker
    /\ policy \in Policies
    /\ orchestrator = NoAttributes
    /\ selection = SelectionOrchestrator(ORDER_SCHEME, ITEM_SCHEME, <<>>)
    /\ run = RunMany(<<>>)
    /\ ret = Ret("init", NoDecision(None), "-", {})

\* The commit of decision d: apply_decision(d)
Commit(d) ==
    LET a == apply_decision(d)
    IN  /\ trucks' = a.trucks
        /\ open' = a.open
        /\ tracker' = a.tracker

\* PlacerOrchestrator.run_one(order_id)
run_one(o) ==
    \E d \in RunOneDecisions(o) :
        /\ IF d.truck_id # None
           THEN Commit(d)
           ELSE /\ tracker' = on_failure(tracker, o,
                                         GetAttr(order_features(o), "vip", FALSE),
                                         FALSE, "None",
                                         IF RunOneBucket(o) = "A" THEN "infeasible_in_bucket_A"
                                         ELSE IF RunOneBucket(o) = "B" THEN "infeasible_in_bucket_B"
                                         ELSE "infeasible_in_bucket_C")
                /\ UNCHANGED <<trucks, open>>
        /\ ret' = Ret("run_one", d, RunOneBucket(o), {})
        /\ UNCHANGED <<policy, orchestrator, selection>>

\* A driver's call of run_one(order_id) outside run_many
RunOne(o) == run_one(o) /\ UNCHANGED run

\* The bucket of an order by its own cold fraction (CustomerOrder.cold_fraction)
OrderBucket(o) == determine_bucket(OrderBook[o].cold_fraction, policy.alpha_threshold)

\* A driver step in which the placer itself writes the failure of an order it
\* finds no truck for into the tracker
PlaceAndApply_placer_records_failure(fn, bucket, decisions) ==
    \E d \in decisions :
        /\ IF d.truck_id # None THEN Commit(d)
           ELSE /\ tracker' = on_failure(tracker, d.order_id, FALSE, FALSE, "None",
                                         "infeasible")
                /\ UNCHANGED <<trucks, open>>
        /\ ret' = Ret(fn, d, bucket, {})
        /\ UNCHANGED <<policy, orchestrator, selection, run>>

\* A driver that routes an order by its own cold fraction, calls the placer of
\* that bucket itself and commits what it returns:
\*   d = placer(state, feas, policy, order_id, ...); if d: apply_decision(d)
PlaceAndApply(fn, bucket, decisions) ==
    \E d \in decisions :
        /\ IF d.truck_id # None THEN Commit(d) ELSE UNCHANGED <<trucks, open, tracker>>
        /\ ret' = Ret(fn, d, bucket, {})
        /\ UNCHANGED <<policy, orchestrator, selection, run>>

PlaceA(o) ==
    /\ OrderBucket(o) = "A"
    /\ PlaceAndApply("assign_to_best_reefer", "A", assign_to_best_reefer(o, reefer_scheme_A))

PlaceB(o) ==
    /\ OrderBucket(o) = "B"
    /\ PlaceAndApply("assign_bucket_b_order", "B",
                     assign_bucket_b_order(o, reefer_scheme_B, dry_scheme_B))

PlaceC(o) ==
    /\ OrderBucket(o) = "C"
    /\ PlaceAndApply("assign_bucket_c_order", "C", assign_bucket_c_order(o, dry_scheme_C))

\* maybe_depart_trucks(strategy, min_util_slack=..., depart_time=...)
MaybeDepartTrucks(strategy, min_util_slack, depart_time) ==
    /\ tracker' = maybe_depart_trucks(strategy, min_util_slack, depart_time)
    /\ ret' = Ret("maybe_depart_trucks", NoDecision(None), "-",
                  IF strategy = "none" THEN {} ELSE DepartSet(strategy, min_util_slack))
    /\ UNCHANGED <<trucks, open, policy, orchestrator, selection, run>>

\* The ranking schemes choose_best_open_reefer is asked for
Schemes == {<<"cold", "volume", "weight">>, <<"volume", "cold", "weight">>}

Next ==
    \/ \E o \in OrderIds : RunOne(o)
    \/ \E o \in OrderIds : PlaceA(o)
    \/ \E o \in OrderIds : PlaceB(o)
    \/ \E o \in OrderIds : PlaceC(o)
    \/ \E strategy \in {"none", "min_util", "time"}, when \in {"18:00"} :
            MaybeDepartTrucks(strategy, 0, when)

Spec == Init /\ [][Next]_vars

(***************************************************************************)
(* Phase 1 on its own: constructing a selector and ranking with it         *)
(***************************************************************************)

\* The schemes tried: up to MaxSchemeLen names, one of them no dimension
SchemesOver(dims) ==
    UNION {[1..n -> dims \cup {"bogus"}] : n \in 0..MaxSchemeLen}

\* The lists of distinct ids handed to a ranker (dict keys in insertion order)
ListsOf(ids) ==
    {s \in UNION {[1..n -> ids] : n \in 0..MaxRanked} :
        \A i, j \in DOMAIN s : i # j => s[i] # s[j]}

\* A call that is about to be made: the scheme for the constructor and the
\* ids the state hands to the ranker
Call(fn, scheme, input) ==
    [fn |-> fn, scheme |-> scheme, input |-> input, raised |-> "None", last_rank |-> <<>>]

\* OrderLevelSelector(scheme=scheme).rank_orders(state), the state holding the
\* orders of ret.input
RankOrders ==
    /\ ret.fn = "call_rank_orders"
    /\ ret' = IF OrderLevelSelector_raises(ret.scheme)
              THEN [ret EXCEPT !.fn = "OrderLevelSelector", !.raised = "ValueError"]
              ELSE [ret EXCEPT !.fn = "rank_orders",
                               !.last_rank = rank_orders(ret.scheme, ret.input)]
    /\ UNCHANGED <<trucks, open, tracker, policy, orchestrator, selection, run>>

\* ItemLevelSorter(scheme=scheme).rank_items(state, order_id), the order holding
\* the item lines of ret.input
RankItems ==
    /\ ret.fn = "call_rank_items"
    /\ ret' = IF ItemLevelSorter_raises(ret.scheme)
              THEN [ret EXCEPT !.fn = "ItemLevelSorter", !.raised = "ValueError"]
              ELSE [ret EXCEPT !.fn = "rank_items",
                               !.last_rank = rank_items(ret.scheme, ret.input)]
    /\ UNCHANGED <<trucks, open, tracker, policy, orchestrator, selection, run>>

\* The policy scripts/run.py configures
run_py_policy == CHOOSE p \in Policies : ~HasAttr(p, "allow_open_new_dry_B")

InitRank ==
    /\ trucks = [t \in TruckIds |->
                    [used_volume_m3 |-> 0, used_cold_m3 |-> 0, used_weight_kg |-> 0,
                     assigned_orders |-> <<>>, used_cooler_m3 |-> 0]]
    /\ open = {}
    /\ tracker = NewTracker
    /\ policy = run_py_policy
    /\ orchestrator = NoAttributes
    /\ selection = SelectionOrchestrator(ORDER_SCHEME, ITEM_SCHEME, <<>>)
    /\ run = RunMany(<<>>)
    /\ ret \in {Call("call_rank_orders", scheme, remaining) :
                    scheme \in SchemesOver(allowed_order_dims),
                    remaining \in ListsOf(SelectionOrderIds)}
            \cup
               {Call("call_rank_items", scheme, feats) :
                    scheme \in SchemesOver(allowed_item_dims),
                    feats \in ListsOf(SelectionItemIds)}

NextRank == RankOrders \/ RankItems

SpecRank == InitRank /\ [][NextRank]_vars

(***************************************************************************)
(* Phase 2 packing: SimplePackingPolicy.plan over the ranked item lines    *)
(***************************************************************************)

\* The ItemRank list rank_items returns: the rows without rank and key, the
\* numbers under the feature names of rank_items
ItemRanks(rows) ==
    [i \in 1..Len(rows) |->
        [item_id |-> rows[i].item_id, qty |-> rows[i].qty,
         features |-> [cold01 |-> rows[i].cold01, w_ij |-> rows[i].w_ij,
                       v_ij_eff |-> rows[i].v_ij_eff, liquid01 |-> rows[i].liquid01,
                       stack_limit |-> rows[i].stack_limit,
                       fragile_score |-> rows[i].fragile_score,
                       upright01 |-> rows[i].upright01]]]

\* str.lower() on the separation tags
str_lower(tag) ==
    CASE tag = "Food"      -> "food"
      [] tag = "Non-Food"  -> "non-food"
      [] tag = "Allergen"  -> "allergen"
      [] tag = "Hazardous" -> "hazardous"
      [] OTHER             -> tag

\* plan: the zone of a line from its features
plan_zone(f) ==
    LET q_cold  == GetAttr(f, "q_cold", 0)
        sep_tag == str_lower(GetAttr(f, "sep_tag", "non_food"))
    IN  IF sep_tag = "hazardous" THEN "haz"
        ELSE IF q_cold > 0 THEN "cold"
        ELSE "ambient"

\* plan: the lane of a line given the lane weights of its zone
plan_lane(lane_weight, zone) ==
    IF lane_weight[zone].left <= lane_weight[zone].right THEN "left" ELSE "right"

\* A top-layer test that looks at fragility only
plan_is_top_fragile_only(f) == GetAttr(f, "fragile_score", 0) >= 1

\* plan: whether a line goes to the top layer of its zone
plan_is_top(f) ==
    GetAttr(f, "fragile_score", 0) >= 1 \/ GetAttr(f, "upright01", 0) = 1

\* The loop of plan from the line at index idx (0-based) on
RECURSIVE plan_loop(_, _, _, _, _)
plan_loop(seq, idx, lane_weight, top_layer_next, placements) ==
    IF idx >= Len(seq) THEN placements
    ELSE LET ir    == seq[idx + 1]
             f     == ir.features
             w     == GetAttr(f, "w", 0)
             zone  == plan_zone(f)
             lane  == plan_lane(lane_weight, zone)
             top   == plan_is_top(f)
             layer == IF top THEN top_layer_next[zone] ELSE 1
         IN  plan_loop(seq, idx + 1,
                       [lane_weight EXCEPT ![zone][lane] = @ + w],
                       IF top THEN [top_layer_next EXCEPT ![zone] = layer + 1]
                       ELSE top_layer_next,
                       Append(placements,
                              [item_id |-> ir.item_id, qty |-> ir.qty, zone |-> zone,
                               lane |-> lane, layer |-> layer, pos |-> idx]))

\* SimplePackingPolicy.plan for the ranked lines seq: the placements of the
\* LoadingPlan, each (item_id, qty, slot) with the slot's fields inlined
plan(seq) ==
    plan_loop(seq, 0,
              [z \in {"cold", "ambient", "haz"} |-> [left |-> 0, right |-> 0]],
              [z \in {"cold", "ambient", "haz"} |-> 2],
              <<>>)

\* packing_policy.plan(state, truck_id, order_id), the state's sorted_items
\* being the ItemRank list the sorter has just returned
Plan ==
    /\ ret.fn = "rank_items"
    /\ ret' = [placements |-> plan(ItemRanks(ret.last_rank))] @@ [ret EXCEPT !.fn = "plan"]
    /\ UNCHANGED <<trucks, open, tracker, policy, orchestrator, selection, run>>

\* The schemes the item sorter is built with before packing
PackingSchemes == {ITEM_SCHEME, <<"item_id">>, <<"fragile", "weight">>}

InitPacking ==
    /\ trucks = [t \in TruckIds |->
                    [used_volume_m3 |-> 0, used_cold_m3 |-> 0, used_weight_kg |-> 0,
                     assigned_orders |-> <<>>, used_cooler_m3 |-> 0]]
    /\ open = {}
    /\ tracker = NewTracker
    /\ policy = run_py_policy
    /\ orchestrator = NoAttributes
    /\ selection = SelectionOrchestrator(ORDER_SCHEME, ITEM_SCHEME, <<>>)
    /\ run = RunMany(<<>>)
    /\ ret \in {Call("call_rank_items", scheme, feats) :
                    scheme \in PackingSchemes, feats \in ListsOf(SelectionItemIds)}

NextPacking == RankItems \/ Plan

SpecPacking == InitPacking /\ [][NextPacking]_vars

(***************************************************************************)
(* Phase 1 as scripts/run.py drives it: SelectionOrchestrator.run          *)
(***************************************************************************)

\* How often SelectionOrchestrator.run is called at most
MaxRuns == 2

\* The orchestrators a day starts with
Orchestrators ==
    {SelectionOrchestrator(os, is, remaining) :
        os \in {ORDER_SCHEME, DefaultOrderScheme},
        is \in {ITEM_SCHEME, DefaultItemScheme},
        remaining \in ListsOf(SelectionOrderIds)}

\* SelectionOrchestrator.run(run_id=run_id, reset_logs=reset_logs)
SelectionRun(run_id, reset_logs) ==
    /\ selection.runs < MaxRuns
    /\ LET r == selection_run(selection, tracker, run_id, reset_logs)
       IN  /\ tracker' = r.tracker
           /\ selection' = [selection EXCEPT !._order_queue_ids = r.ordered_ids,
                                             !.runs = @ + 1]
           /\ ret' = [fn |-> "selection_run", run_id |-> run_id,
                      reset_logs |-> reset_logs, ordered_ids |-> r.ordered_ids]
    /\ UNCHANGED <<trucks, open, policy, orchestrator, run>>

InitSelection ==
    /\ trucks = [t \in TruckIds |->
                    [used_volume_m3 |-> 0, used_cold_m3 |-> 0, used_weight_kg |-> 0,
                     assigned_orders |-> <<>>, used_cooler_m3 |-> 0]]
    /\ open = {}
    /\ tracker = NewTracker
    /\ policy = run_py_policy
    /\ orchestrator = NoAttributes
    /\ selection \in Orchestrators
    /\ run = RunMany(<<>>)
    /\ ret = Ret("init", NoDecision(None), "-", {})

NextSelection == \E reset_logs \in BOOLEAN : SelectionRun("None", reset_logs)

SpecSelection == InitSelection /\ [][NextSelection]_vars

(***************************************************************************)
(* Phase 2 as scripts/run.py drives it: run_many over a queue              *)
(***************************************************************************)

\* How many order ids a queue holds at most
MaxQueue == 3

\* The queues run_many is handed: any ids of the order book, in any order
Queues == UNION {[1..n -> QueueIds] : n \in 0..MaxQueue}

\* A loop that walks the queue from its end
QueuedAt_from_the_end(queue, k) == queue[Len(queue) + 1 - k]

\* The k-th oid of `for oid in order_ids`
QueuedAt(queue, k) == queue[k]

\* A loop that gives up at the first order that could not be placed
next_position_break_on_failure(queue, k, decision) ==
    IF decision.truck_id = None THEN Len(queue) + 1 ELSE k + 1

\* Where the loop of run_many stands after the decision for the k-th order
next_position(queue, k, decision) == k + 1

\* One iteration of the loop of run_many: decisions.append(self.run_one(oid))
RunManyStep ==
    /\ run.k <= Len(run.queue)
    /\ run_one(QueuedAt(run.queue, run.k))
    /\ run' = [run EXCEPT !.k = next_position(run.queue, run.k, ret'),
                          !.decisions = Append(@, ret')]

InitRunMany ==
    /\ trucks = [t \in TruckIds |->
                    [used_volume_m3 |-> 0, used_cold_m3 |-> 0, used_weight_kg |-> 0,
                     assigned_orders |-> <<>>, used_cooler_m3 |-> 0]]
    /\ open = {}
    /\ tracker = NewTracker
    /\ policy \in Policies
    /\ orchestrator = NoAttributes
    /\ selection = SelectionOrchestrator(ORDER_SCHEME, ITEM_SCHEME, <<>>)
    /\ run \in {RunMany(order_ids) : order_ids \in Queues}
    /\ ret = Ret("init", NoDecision(None), "-", {})

NextRunMany == RunManyStep

\* run_many is a plain loop: an iteration that can run does run
SpecRunMany == InitRunMany /\ [][NextRunMany]_vars /\ WF_vars(RunManyStep)

(***************************************************************************)
(* A day in which the A/B/C split is adjusted between calls of run_one     *)
(***************************************************************************)

\* The thresholds set_alpha_threshold is called with, in percent
Alphas == {30, 100}

\* orchestrator.set_alpha_threshold(alpha)
SetAlphaThreshold(alpha) ==
    /\ orchestrator' = set_alpha_threshold(orchestrator, alpha)
    /\ ret' = Ret("set_alpha_threshold", NoDecision(None), "-", {})
    /\ UNCHANGED <<trucks, open, tracker, policy, selection, run>>

NextAlpha ==
    \/ \E alpha \in Alphas : SetAlphaThreshold(alpha)
    \/ \E o \in OrderIds : RunOne(o)

SpecAlpha == Init /\ [][NextAlpha]_vars

(***************************************************************************)
(* The DayTracker driven directly through its public methods, as a caller  *)
(* other than the orchestrator may: any order on any registered truck.     *)
(***************************************************************************)

\* The most assignments one order book is given in a day of direct calls
MaxAssigns == 2

\* The trucks and orders of the direct calls: a reefer and a dry truck, an
\* order with cold volume and an ambient one
TrackerTrucks == {1, 3}
TrackerOrders == {2, 4}

\* How many on_assign calls the ledger has taken
AssignCalls(tr) ==
    LET S == DOMAIN tr.orders
        sum[T \in SUBSET S] ==
            IF T = {} THEN 0
            ELSE LET o == CHOOSE x \in T : TRUE
                 IN  tr.orders[o].assigned_truck_count + sum[T \ {o}]
    IN  sum[S]

\* What the last tracker call was
TrackerCall(fn, o, t, raised) ==
    [fn |-> fn, order_id |-> o, truck_id |-> t, raised |-> raised]

\* tracker.open_truck(truck_id, ...) with the truck's own capacities
TrackerOpenTruck(t) ==
    /\ tracker' = open_truck(tracker, t, Fleet[t].type = "Reefer",
                             Fleet[t].total_capacity_m3, Fleet[t].cold_capacity_m3,
                             Fleet[t].weight_limit_kg, Fleet[t].fixed_cost,
                             Fleet[t].min_utilization)
    /\ ret' = TrackerCall("open_truck", None, t, open_truck_raises(tracker, t))
    /\ UNCHANGED <<trucks, open, policy, orchestrator, selection, run>>

\* tracker.on_assign(order_id, truck_id, ...) with the order's own aggregates
TrackerOnAssign(o, t) ==
    /\ AssignCalls(tracker) < MaxAssigns
    /\ tracker' = on_assign(tracker, o, t, OrderBook[o].total_volume_m3,
                            OrderBook[o].cold_volume_m3, OrderBook[o].weight_kg,
                            OrderBook[o].effective_volume_m3, OrderBook[o].vip,
                            "None", "None",
                            OrderBook[o].cold_volume_m3 > 0 /\ Fleet[t].type = "Dry")
    /\ ret' = TrackerCall("on_assign", o, t, on_assign_raises(tracker, t))
    /\ UNCHANGED <<trucks, open, policy, orchestrator, selection, run>>

\* tracker.on_failure(order_id, ...) for an order that is not late
TrackerOnFailure(o) ==
    /\ tracker' = on_failure(tracker, o, OrderBook[o].vip, FALSE, "None", "infeasible")
    /\ ret' = TrackerCall("on_failure", o, None, FALSE)
    /\ UNCHANGED <<trucks, open, policy, orchestrator, selection, run>>

\* tracker.on_departure(truck_id, when)
TrackerOnDeparture(t) ==
    /\ tracker' = on_departure(tracker, t, "18:00")
    /\ ret' = TrackerCall("on_departure", None, t, on_departure_raises(tracker, t))
    /\ UNCHANGED <<trucks, open, policy, orchestrator, selection, run>>

InitTracker ==
    /\ trucks = [t \in TruckIds |->
                    [used_volume_m3 |-> 0, used_cold_m3 |-> 0, used_weight_kg |-> 0,
                     assigned_orders |-> <<>>, used_cooler_m3 |-> 0]]
    /\ open = {}
    /\ tracker = NewTracker
    /\ policy \in Policies
    /\ orchestrator = NoAttributes
    /\ selection = SelectionOrchestrator(ORDER_SCHEME, ITEM_SCHEME, <<>>)
    /\ run = RunMany(<<>>)
    /\ ret = TrackerCall("init", None, None, FALSE)

NextTracker ==
    \/ \E t \in TrackerTrucks : TrackerOpenTruck(t)
    \/ \E o \in TrackerOrders, t \in TrackerTrucks : TrackerOnAssign(o, t)
    \/ \E o \in TrackerOrders : TrackerOnFailure(o)
    \/ \E t \in TrackerTrucks : TrackerOnDeparture(t)

SpecTracker == InitTracker /\ [][NextTracker]_vars

(***************************************************************************)
(* Properties                                                              *)
(***************************************************************************)

\* The fns under which ret reports a placement attempt
AssignFns == {"run_one", "assign_to_best_reefer", "assign_bucket_b_order",
              "assign_bucket_c_order"}

\* The last call assigned its order to a truck
Assigned == ret.fn \in AssignFns /\ ret.truck_id # None

\* C1: after any sequence of run_one calls and of placer decisions committed
\* by apply_decision, starting from unused trucks, every truck has
\* used volume <= Q * (1 - reserve_fraction), used weight <= W and, on a
\* reefer, used cold volume <= Q_cold (in the Truck objects and in the
\* tracker's ledger).
C1_CapacityRespected ==
    /\ \A t \in TruckIds :
        /\ 100 * trucks[t].used_volume_m3
              <= Fleet[t].total_capacity_m3 * (100 - Fleet[t].reserve_fraction)
        /\ trucks[t].used_weight_kg <= Fleet[t].weight_limit_kg
        /\ Fleet[t].type = "Reefer" => trucks[t].used_cold_m3 <= Fleet[t].cold_capacity_m3
    /\ \A t \in DOMAIN tracker.trucks :
        /\ 100 * tracker.trucks[t].used_v_eff
              <= Fleet[t].total_capacity_m3 * (100 - Fleet[t].reserve_fraction)
        /\ tracker.trucks[t].used_w <= Fleet[t].weight_limit_kg
        /\ Fleet[t].type = "Reefer" => tracker.trucks[t].used_q_cold <= Fleet[t].cold_capacity_m3

\* C1 witness: a dry truck loaded exactly to its reserve-limited volume and a
\* reefer loaded exactly to its cold capacity, each by two committed orders.
C1_Witness ==
    /\ \E t \in TruckIds :
        /\ Fleet[t].type = "Dry"
        /\ Fleet[t].reserve_fraction > 0
        /\ Len(trucks[t].assigned_orders) = 2
        /\ 100 * trucks[t].used_volume_m3
              = Fleet[t].total_capacity_m3 * (100 - Fleet[t].reserve_fraction)
    /\ \E t \in TruckIds :
        /\ Fleet[t].type = "Reefer"
        /\ Len(trucks[t].assigned_orders) = 2
        /\ trucks[t].used_cold_m3 = Fleet[t].cold_capacity_m3

\* C2 (as claimed): no run_one or apply_decision assigns an order to a truck
\* that has been marked departed.
C2_NoAssignmentAfterDeparture ==
    Assigned => ~tracker.trucks[ret.truck_id].departed

\* C3 (as claimed): every order in the order ledger has assigned_truck_count
\* in {0, 1}, and an order with count 0 is not placed and has a reason.
C3_AssignedAtMostOnce ==
    \A o \in DOMAIN tracker.orders :
        /\ tracker.orders[o].assigned_truck_count \in {0, 1}
        /\ tracker.orders[o].assigned_truck_count = 0
              => ~tracker.orders[o].placed /\ tracker.orders[o].reason \notin {"None", ""}

\* C4 (as claimed): run_one dispatches an order to the placer of the bucket
\* its cold fraction alpha_i = q_cold / q gives.
C4_RunOneBucketByColdFraction ==
    ret.fn = "run_one" => ret.bucket = OrderBucket(ret.order_id)

\* R_vol, R_w, R_cold of the data model, without the floor at 0
R_vol(t) == (Fleet[t].total_capacity_m3 * (100 - Fleet[t].reserve_fraction)) \div 100
                - trucks[t].used_volume_m3
R_w(t) == Fleet[t].weight_limit_kg - trucks[t].used_weight_kg
R_cold(t) == IF Fleet[t].type = "Dry" THEN 0
             ELSE Fleet[t].cold_capacity_m3 - trucks[t].used_cold_m3

\* C5 (as claimed): fits_order_on_truck(order, truck) iff v_eff <= R_vol and
\* w <= R_w and, when q_cold > 0, either the truck is a reefer with
\* q_cold <= R_cold or it is dry and cooler_feasible(order, truck).
C5_FitsAsSpecified ==
    \A o \in OrderIds, t \in TruckIds :
        fits_order_on_truck(o, t)
            <=> /\ OrderBook[o].effective_volume_m3 <= R_vol(t)
                /\ OrderBook[o].weight_kg <= R_w(t)
                /\ OrderBook[o].cold_volume_m3 > 0
                      => \/ Fleet[t].type = "Reefer" /\ OrderBook[o].cold_volume_m3 <= R_cold(t)
                         \/ Fleet[t].type = "Dry" /\ cooler_feasible(o, t)

\* The cooler volume earlier cold-on-dry assignments have consumed on truck t
CoolerConsumed(t) ==
    IF t \in DOMAIN tracker.trucks THEN tracker.trucks[t].cooler_used_m3 ELSE 0

\* R_cooler of the data model: the truck's cooler capacity minus what is consumed
R_cooler(t) == Fleet[t].cooler_capacity_m3 - CoolerConsumed(t)

\* C6 (as claimed): cooler_feasible(order, truck) iff cold-in-dry is allowed,
\* the truck is dry, q_cold > 0 and q_cold <= R_cooler(truck).
C6_CoolerFeasibleAsSpecified ==
    \A o \in OrderIds, t \in TruckIds :
        cooler_feasible(o, t)
            <=> /\ policy.allow_cold_in_dry_B
                /\ Fleet[t].type = "Dry"
                /\ OrderBook[o].cold_volume_m3 > 0
                /\ OrderBook[o].cold_volume_m3 <= R_cooler(t)

\* C7: on every dry truck the accumulated cold volume is at most the truck's
\* cooler capacity, and it is positive only if cold-in-dry is allowed.
C7_ColdOnDryBounded ==
    \A t \in TruckIds :
        Fleet[t].type = "Dry" =>
            /\ trucks[t].used_cold_m3 <= Fleet[t].cooler_capacity_m3
            /\ trucks[t].used_cold_m3 > 0 => policy.allow_cold_in_dry_B
            /\ t \in DOMAIN tracker.trucks =>
                /\ tracker.trucks[t].used_q_cold <= Fleet[t].cooler_capacity_m3
                /\ tracker.trucks[t].used_q_cold > 0 => policy.allow_cold_in_dry_B

\* C7 witness: cold-in-dry is not allowed, a dry truck carries an order and has
\* room in volume and weight for the cold order that the bucket-B placer has
\* just been asked to place.
C7_Witness ==
    /\ ~policy.allow_cold_in_dry_B
    /\ ret.fn = "assign_bucket_b_order"
    /\ OrderBook[ret.order_id].cold_volume_m3 > 0
    /\ \E t \in OpenIds("dry") :
        /\ trucks[t].assigned_orders # <<>>
        /\ OrderBook[ret.order_id].effective_volume_m3 <= R_vol(t)
        /\ OrderBook[ret.order_id].weight_kg <= R_w(t)

\* The situation of C8 for order o: no open reefer fits, and an open dry truck
\* has the residual volume, weight and cooler capacity with cold-in-dry allowed
ColdInDryPossible(o) ==
    /\ OrderBook[o].cold_volume_m3 > 0
    /\ OrderBucket(o) = "B"
    /\ policy.allow_cold_in_dry_B
    /\ \A t \in OpenIds("reefer") : ~fits_order_on_truck(o, t)
    /\ \E t \in OpenIds("dry") :
        /\ OrderBook[o].effective_volume_m3 <= R_vol(t)
        /\ OrderBook[o].weight_kg <= R_w(t)
        /\ OrderBook[o].cold_volume_m3 <= R_cooler(t)

\* C8 (as claimed): a bucket-B order with cold volume is assigned to the open
\* dry truck when no open reefer fits and that truck has the room; so it is
\* never refused in that situation (a refusal leaves the trucks as they were).
C8_ColdOrderGoesToOpenDry ==
    (ret.fn \in {"run_one", "assign_bucket_b_order"} /\ ret.truck_id = None)
        => ~ColdInDryPossible(ret.order_id)

\* The open reefers that pass fits for order o
FittingOpenReefers(o) == {t \in OpenIds("reefer") : fits_order_on_truck(o, t)}

\* The leftover key of truck t for order o under a scheme
LeftoverKey(o, t, scheme) == [i \in DOMAIN scheme |-> Resid(t, scheme[i]) - Demand(o, scheme[i])]

\* The truck C9 names: lexicographically minimal leftover key, ties to the
\* smallest id; None when no open reefer fits
BestReeferAsSpecified(o, scheme) ==
    LET F == FittingOpenReefers(o)
    IN  IF F = {} THEN None
        ELSE CHOOSE t \in F :
                \A u \in F \ {t} :
                    \/ TupleLess(LeftoverKey(o, t, scheme), LeftoverKey(o, u, scheme))
                    \/ LeftoverKey(o, t, scheme) = LeftoverKey(o, u, scheme) /\ t < u

\* C9 (as claimed): choose_best_open_reefer returns the fitting open reefer with
\* the minimal leftover key, the smallest id among equal keys, and none iff no
\* open reefer fits.
C9_BestReeferTieOnId ==
    \A o \in OrderIds, scheme \in Schemes :
        choose_best_open_reefer(o, scheme) = {BestReeferAsSpecified(o, scheme)}

\* The reefers assign_to_best_reefer may open for order o
NewReeferCandidates(o) ==
    {t \in TruckIds : Fleet[t].type = "Reefer" /\ t \notin open /\ fits_order_on_truck(o, t)}

\* C10: in assign_to_best_reefer a decision on an already-open reefer has
\* opened_new_truck = false; when no open reefer fits and
\* allow_open_new_reefer_A holds the decision is the smallest-id reefer that
\* is not open and fits, with opened_new_truck = true; when the flag is false
\* (or no such reefer exists) no decision is returned.  A newly opened truck
\* holds exactly the order just committed, an already-open one held others.
C10_OpenNewReefer ==
    /\ \A o \in OrderIds : \A d \in assign_to_best_reefer(o, reefer_scheme_A) :
        IF FittingOpenReefers(o) # {}
        THEN d.truck_id \in FittingOpenReefers(o) /\ ~d.opened_new_truck
        ELSE IF policy.allow_open_new_reefer_A /\ NewReeferCandidates(o) # {}
        THEN /\ d.truck_id \in NewReeferCandidates(o)
             /\ \A u \in NewReeferCandidates(o) : d.truck_id <= u
             /\ d.opened_new_truck
        ELSE d.truck_id = None
    /\ (ret.fn = "assign_to_best_reefer" /\ ret.truck_id # None) =>
        /\ Fleet[ret.truck_id].type = "Reefer"
        /\ ret.opened_new_truck <=> trucks[ret.truck_id].assigned_orders = <<ret.order_id>>

\* C10 witness: assign_to_best_reefer has opened the second reefer for an order
\* that the open first reefer could not take.
C10_Witness ==
    /\ ret.fn = "assign_to_best_reefer"
    /\ ret.opened_new_truck
    /\ ret.truck_id = 2
    /\ 1 \in open
    /\ policy.allow_open_new_reefer_A

\* The failure reason run_one writes for bucket X
InfeasibleReason(X) ==
    IF X = "A" THEN "infeasible_in_bucket_A"
    ELSE IF X = "B" THEN "infeasible_in_bucket_B"
    ELSE "infeasible_in_bucket_C"

\* C11 (as claimed): when run_one finds no placement for an order of bucket X,
\* the order is recorded as failed with reason infeasible_in_bucket_X and
\* nothing else changes: no truck is opened, no truck ledger or assigned list
\* changes, and C_total and the day totals keep their values.
C11_FailureRecordedOnly ==
    [][(ret'.fn = "run_one" /\ ret'.truck_id = None) =>
        LET o == ret'.order_id
        IN  /\ o \in DOMAIN tracker'.orders
            /\ ~tracker'.orders[o].placed
            /\ tracker'.orders[o].reason = InfeasibleReason(OrderBucket(o))
            /\ trucks' = trucks
            /\ open' = open
            /\ tracker'.trucks = tracker.trucks
            /\ tracker'.opened_trucks = tracker.opened_trucks
            /\ tracker'.c_total = tracker.c_total
            /\ tracker'.sum_q = tracker.sum_q
            /\ tracker'.sum_v_eff = tracker.sum_v_eff
            /\ tracker'.sum_w = tracker.sum_w]_vars

\* The open dry trucks that pass fits for order o
FittingOpenDry(o) == {t \in OpenIds("dry") : fits_order_on_truck(o, t)}

\* C12: assign_bucket_b_order returns the best open reefer if one fits, else
\* the best open dry truck if one fits, else a dry truck that was not open (or
\* nothing); a reefer it returns is always already open, whatever
\* allow_open_new_reefer_A says, and so already carries an earlier order.
C12_BucketBOrderOfTries ==
    /\ \A o \in OrderIds : \A d \in assign_bucket_b_order(o, reefer_scheme_B, dry_scheme_B) :
        /\ (d.truck_id # None /\ Fleet[d.truck_id].type = "Reefer") => d.truck_id \in open
        /\ FittingOpenReefers(o) # {} => d.truck_id \in FittingOpenReefers(o)
        /\ (FittingOpenReefers(o) = {} /\ FittingOpenDry(o) # {}) => d.truck_id \in FittingOpenDry(o)
        /\ (FittingOpenReefers(o) = {} /\ FittingOpenDry(o) = {}) =>
                \/ d.truck_id = None
                \/ /\ Fleet[d.truck_id].type = "Dry"
                   /\ d.truck_id \notin open
                   /\ fits_order_on_truck(o, d.truck_id)
    /\ (ret.fn = "assign_bucket_b_order" /\ ret.truck_id # None
            /\ Fleet[ret.truck_id].type = "Reefer")
        => Len(trucks[ret.truck_id].assigned_orders) >= 2

\* C12 witness: opening reefers is allowed and a reefer that is not open would
\* fit the order, yet assign_bucket_b_order has returned no truck.
C12_Witness ==
    /\ ret.fn = "assign_bucket_b_order"
    /\ ret.truck_id = None
    /\ policy.allow_open_new_reefer_A
    /\ NewReeferCandidates(ret.order_id) # {}

\* The orders in the assigned list of truck t
AssignedTo(t) == {trucks[t].assigned_orders[i] : i \in DOMAIN trucks[t].assigned_orders}

\* C13: no order with alpha_i = 0 (no cold volume) is ever assigned to a
\* reefer: not in a reefer's assigned list, and not by the call just made.
C13_AmbientNeverOnReefer ==
    /\ \A t \in TruckIds : Fleet[t].type = "Reefer" =>
            \A o \in AssignedTo(t) : OrderBook[o].cold_fraction > 0
    /\ (Assigned /\ OrderBook[ret.order_id].cold_fraction = 0)
            => Fleet[ret.truck_id].type = "Dry"

\* C13 witness: run_one has placed an order without cold volume on a dry truck
\* while an open reefer still has room for it.
C13_Witness ==
    /\ ret.fn = "run_one"
    /\ ret.truck_id # None
    /\ OrderBook[ret.order_id].cold_fraction = 0
    /\ FittingOpenReefers(ret.order_id) # {}

\* C14: no order with alpha_i >= alpha_threshold (bucket A) is ever assigned to
\* a dry truck: a placement attempt for it ends on a reefer or in a failure.
C14_ColdMandatoryNeverOnDry ==
    /\ \A t \in TruckIds : Fleet[t].type = "Dry" =>
            \A o \in AssignedTo(t) : OrderBucket(o) # "A"
    /\ \A p \in tracker.cold_on_dry_pairs : OrderBucket(p[1]) # "A"
    /\ (ret.fn \in AssignFns /\ OrderBucket(ret.order_id) = "A") =>
            \/ ret.truck_id # None /\ Fleet[ret.truck_id].type = "Reefer"
            \/ /\ ret.truck_id = None
               /\ ret.fn = "run_one" =>
                    /\ ret.order_id \in DOMAIN tracker.orders
                    /\ ~tracker.orders[ret.order_id].placed

\* C14 witness: run_one has failed a bucket-A order while an open dry truck has
\* the residual volume and weight for it.
C14_Witness ==
    /\ ret.fn = "run_one"
    /\ ret.truck_id = None
    /\ OrderBucket(ret.order_id) = "A"
    /\ ~tracker.orders[ret.order_id].placed
    /\ \E t \in OpenIds("dry") :
        /\ OrderBook[ret.order_id].effective_volume_m3 <= R_vol(t)
        /\ OrderBook[ret.order_id].weight_kg <= R_w(t)

\* The dry trucks that are available, not open and pass fits for order o
NewDryCandidates(o) ==
    {t \in TruckIds : Fleet[t].type = "Dry" /\ t \notin open /\ fits_order_on_truck(o, t)}

\* The decisions of the placer of the order's own bucket, B or C
DryBucketDecisions(o) ==
    IF OrderBucket(o) = "B" THEN assign_bucket_b_order(o, reefer_scheme_B, dry_scheme_B)
    ELSE assign_bucket_c_order(o, dry_scheme_C)

\* C15 (as claimed): opening a new dry truck is governed by
\* allow_open_new_dry_C: when it is true and no open truck fits, a bucket-B or
\* bucket-C order is assigned to the smallest-id dry truck that is not open and
\* fits; when it is false the order gets no truck.
C15_NewDryGovernedByFlagC ==
    \A o \in OrderIds : OrderBucket(o) \in {"B", "C"} =>
        \A d \in DryBucketDecisions(o) :
            (FittingOpenDry(o) = {} /\ (OrderBucket(o) = "B" => FittingOpenReefers(o) = {})) =>
                IF GetAttr(policy, "allow_open_new_dry_C", FALSE)
                THEN NewDryCandidates(o) # {} =>
                        /\ d.truck_id \in NewDryCandidates(o)
                        /\ \A u \in NewDryCandidates(o) : d.truck_id <= u
                ELSE d.truck_id = None

\* The sum of field `what` of the orders in the list `orders`
RECURSIVE SumOver(_, _)
SumOver(orders, what) ==
    IF orders = <<>> THEN 0
    ELSE OrderBook[Head(orders)][what] + SumOver(Tail(orders), what)

\* The sum of field `what` over every assignment made to the trucks of S
RECURSIVE SumPlaced(_, _)
SumPlaced(S, what) ==
    IF S = {} THEN 0
    ELSE LET t == CHOOSE x \in S : TRUE
         IN  SumOver(trucks[t].assigned_orders, what) + SumPlaced(S \ {t}, what)

\* C16 (as claimed): the tracker's day totals sum_q, sum_v_eff and sum_w equal
\* the sums of q_i (geometric total volume), v_eff_i and w_i over all the
\* orders placed so far.
C16_DayTotalsAreSums ==
    /\ tracker.sum_q = SumPlaced(TruckIds, "total_volume_m3")
    /\ tracker.sum_v_eff = SumPlaced(TruckIds, "effective_volume_m3")
    /\ tracker.sum_w = SumPlaced(TruckIds, "weight_kg")

\* The sum of fixed_cost over the trucks of S
RECURSIVE SumFixedCost(_)
SumFixedCost(S) ==
    IF S = {} THEN 0
    ELSE LET t == CHOOSE x \in S : TRUE
         IN  Fleet[t].fixed_cost + SumFixedCost(S \ {t})

\* C17: C_total equals the sum of fixed_cost over the trucks opened so far, the
\* trucks that have received an assignment; each is counted once however many
\* orders it carries.
C17_FixedCostOnce ==
    /\ tracker.opened_trucks = {t \in TruckIds : trucks[t].assigned_orders # <<>>}
    /\ tracker.opened_trucks = DOMAIN tracker.trucks
    /\ tracker.c_total = SumFixedCost(tracker.opened_trucks)

\* C17 witness: two trucks are opened and one of them carries two orders.
C17_Witness ==
    /\ Cardinality(tracker.opened_trucks) = 2
    /\ \E t \in tracker.opened_trucks : Len(trucks[t].assigned_orders) = 2
    /\ tracker.c_total > 0

\* The cooler volume the tracker's ledger holds for truck t in tracker tr
LedgerCooler(tr, t) == IF t \in DOMAIN tr.trucks THEN tr.trucks[t].cooler_used_m3 ELSE 0

\* C18 (as claimed): apply_decision(order i -> truck k) changes only truck k's
\* ledger: used volume, weight and cold volume grow by v_eff, w and q_cold, the
\* used cooler volume grows by q_cold when k is dry and q_cold > 0, i is
\* appended to k's assigned orders, and every other truck is unchanged.
C18_ApplyDecisionFrame ==
    \A i \in OrderIds, k \in TruckIds :
        LET a      == apply_decision(AssignOrder(i, k, FALSE, "none"))
            cooler == IF Fleet[k].type = "Dry" /\ OrderBook[i].cold_volume_m3 > 0
                      THEN OrderBook[i].cold_volume_m3 ELSE 0
        IN  /\ a.trucks[k].used_volume_m3 = trucks[k].used_volume_m3 + OrderBook[i].effective_volume_m3
            /\ a.trucks[k].used_weight_kg = trucks[k].used_weight_kg + OrderBook[i].weight_kg
            /\ a.trucks[k].used_cold_m3 = trucks[k].used_cold_m3 + OrderBook[i].cold_volume_m3
            /\ a.trucks[k].assigned_orders = Append(trucks[k].assigned_orders, i)
            /\ a.trucks[k].used_cooler_m3 = trucks[k].used_cooler_m3 + cooler
            /\ LedgerCooler(a.tracker, k) = LedgerCooler(tracker, k) + cooler
            /\ DOMAIN a.tracker.trucks = DOMAIN tracker.trucks \cup {k}
            /\ \A u \in TruckIds \ {k} :
                /\ a.trucks[u] = trucks[u]
                /\ u \in DOMAIN tracker.trucks => a.tracker.trucks[u] = tracker.trucks[u]

\* The specs _ensure_tracker_truck_open registered truck t with
SameSpecsAgain(tr, t) ==
    open_truck(tr, t, tr.trucks[t].is_reefer, tr.trucks[t].Q, tr.trucks[t].Q_cold,
               tr.trucks[t].W, tr.trucks[t].fixed_cost, tr.trucks[t].tau_min)

\* C19 (as claimed): DayTracker.open_truck called again for a registered truck
\* with identical specs raises no error and leaves the tracker as it was.
C19_OpenTruckIdempotent ==
    \A t \in DOMAIN tracker.trucks :
        /\ ~open_truck_raises(tracker, t)
        /\ SameSpecsAgain(tracker, t) = tracker

\* The volume of truck t that is usable after the reserve
AvailableVolume(t) ==
    (Fleet[t].total_capacity_m3 * (100 - Fleet[t].reserve_fraction)) \div 100

\* C20: for every truck the residuals read through the state view equal the
\* capacities (volume after reserve, cold, weight) minus the summed demands of
\* the orders in its assigned list, and the tracker's used_v_eff, used_w and
\* used_q_cold equal the Truck object's used volume, weight and cold volume.
C20_ResidualsFromAssignments ==
    \A t \in TruckIds :
        /\ truck_residuals(t).remaining_volume_m3
              = AvailableVolume(t) - SumOver(trucks[t].assigned_orders, "effective_volume_m3")
        /\ truck_residuals(t).remaining_cold_m3
              = Fleet[t].cold_capacity_m3 - SumOver(trucks[t].assigned_orders, "cold_volume_m3")
        /\ truck_residuals(t).remaining_weight_kg
              = Fleet[t].weight_limit_kg - SumOver(trucks[t].assigned_orders, "weight_kg")
        /\ trucks[t].assigned_orders # <<>> =>
            /\ t \in DOMAIN tracker.trucks
            /\ tracker.trucks[t].used_v_eff = trucks[t].used_volume_m3
            /\ tracker.trucks[t].used_w = trucks[t].used_weight_kg
            /\ tracker.trucks[t].used_q_cold = trucks[t].used_cold_m3

\* C20 witness: a reefer carries two orders with cold volume, a dry truck
\* carries two orders, and both are in the tracker's ledger.
C20_Witness ==
    /\ \E t \in DOMAIN tracker.trucks :
        /\ Fleet[t].type = "Reefer"
        /\ Len(trucks[t].assigned_orders) = 2
        /\ tracker.trucks[t].used_q_cold = Fleet[t].cold_capacity_m3
    /\ \E t \in DOMAIN tracker.trucks :
        /\ Fleet[t].type = "Dry"
        /\ Len(trucks[t].assigned_orders) = 2
        /\ tracker.trucks[t].used_w = 4

\* The ledger of truck t without the fields on_departure writes
Loads(l) == [used_v_eff |-> l.used_v_eff, used_q |-> l.used_q,
             used_q_cold |-> l.used_q_cold, used_w |-> l.used_w]

OwnBucketDecisions(o) ==
    IF OrderBucket(o) = "A" THEN assign_to_best_reefer(o, reefer_scheme_A)
    ELSE DryBucketDecisions(o)

\* C24 (as claimed): on identical inputs the placement of an order is the same
\* whatever order the set of open trucks is iterated in: run_one and the
\* placer of the order's bucket have a single possible decision.
C24_IterationOrderIrrelevant ==
    \A o \in OrderIds :
        /\ Cardinality(RunOneDecisions(o)) = 1
        /\ Cardinality(OwnBucketDecisions(o)) = 1

\* The trucks C30 names for one sweep
DepartAsSpecified(strategy, min_util_slack) ==
    IF strategy = "none" THEN {}
    ELSE {t \in tracker.opened_trucks :
            /\ ~tracker.trucks[t].departed
            /\ strategy = "min_util" =>
                100 * tracker.trucks[t].used_v_eff
                    >= (tracker.trucks[t].tau_min + min_util_slack) * tracker.trucks[t].Q}

\* The slacks and times a sweep is asked with
Slacks == {0, 10}
DepartTimes == {"18:00"}

\* C30: maybe_depart_trucks with min_util departs and returns exactly the
\* opened, not yet departed trucks with used_v_eff / Q >= tau_min + slack; with
\* time it departs every opened, not yet departed truck and stamps the given
\* time; with none it changes nothing.  Loads are never touched.
C30_DepartExactly ==
    /\ \A strategy \in {"none", "min_util", "time"}, slack \in Slacks, when \in DepartTimes :
        LET after == maybe_depart_trucks(strategy, slack, when)
            S     == DepartAsSpecified(strategy, slack)
        IN  /\ strategy # "none" => DepartSet(strategy, slack) = S
            /\ strategy = "none" => after = tracker
            /\ DOMAIN after.trucks = DOMAIN tracker.trucks
            /\ after.departed_trucks = tracker.departed_trucks \cup S
            /\ \A t \in DOMAIN tracker.trucks :
                /\ after.trucks[t].departed <=> (tracker.trucks[t].departed \/ t \in S)
                /\ t \notin S => after.trucks[t] = tracker.trucks[t]
                /\ Loads(after.trucks[t]) = Loads(tracker.trucks[t])
                /\ (t \in S /\ strategy = "time") => after.trucks[t].departure_time = when
    /\ ret.fn = "maybe_depart_trucks" =>
        \A t \in ret.departed :
            /\ tracker.trucks[t].departed
            /\ tracker.trucks[t].u_vol_at_departure
                  = u_vol_k(tracker.trucks[t].used_v_eff, tracker.trucks[t].Q)

\* C30 witness: a sweep has departed a truck that sits exactly on its
\* threshold and has left an opened truck below its threshold undeparted.
C30_Witness ==
    /\ ret.fn = "maybe_depart_trucks"
    /\ \E t \in ret.departed :
        100 * tracker.trucks[t].used_v_eff = tracker.trucks[t].tau_min * tracker.trucks[t].Q
    /\ \E t \in tracker.opened_trucks :
        /\ ~tracker.trucks[t].departed
        /\ 100 * tracker.trucks[t].used_v_eff < tracker.trucks[t].tau_min * tracker.trucks[t].Q

(***************************************************************************)
(* Properties of the Phase-1 rankers                                       *)
(***************************************************************************)

\* A ranking has been returned
Ranked == ret.fn \in {"rank_orders", "rank_items"}

\* The id a ranked row carries
RowId(r) == IF ret.fn = "rank_orders" THEN r.order_id ELSE r.item_id

\* The ranked rows carry the ids handed in, each once
IsPermutation ==
    /\ Len(ret.last_rank) = Len(ret.input)
    /\ \A i \in DOMAIN ret.input :
            \E j \in DOMAIN ret.last_rank : RowId(ret.last_rank[j]) = ret.input[i]

\* C25: the output of rank_orders and of rank_items is a permutation of the
\* input in which a precedes b iff sort_key(a) < sort_key(b), whatever the
\* scheme, also when the scheme has no id dimension.
C25_RankedIffKeyLess ==
    Ranked =>
        /\ IsPermutation
        /\ \A i, j \in DOMAIN ret.last_rank :
                i # j =>
                    (i < j <=> TupleLess(ret.last_rank[i].sort_key,
                                         ret.last_rank[j].sort_key))

\* The value of an order on a dimension of the order scheme
OrderDimValue(dim, oid) ==
    CASE dim = "vip"      -> SelectionOrders[oid].vip
      [] dim = "due"      -> SelectionOrders[oid].due_dt
      [] dim = "alpha"    -> SelectionOrders[oid].cold_fraction
      [] dim = "v_eff"    -> SelectionOrders[oid].effective_volume_m3
      [] dim = "weight"   -> SelectionOrders[oid].weight_kg
      [] dim = "order_id" -> oid

\* Order a goes before order b on the dimension, in its fixed direction
OrderDimBefore(dim, a, b) ==
    CASE dim = "vip"      -> OrderDimValue(dim, a) /\ ~OrderDimValue(dim, b)
      [] dim = "due"      -> OrderDimValue(dim, a) < OrderDimValue(dim, b)
      [] dim = "alpha"    -> OrderDimValue(dim, a) > OrderDimValue(dim, b)
      [] dim = "v_eff"    -> OrderDimValue(dim, a) > OrderDimValue(dim, b)
      [] dim = "weight"   -> OrderDimValue(dim, a) > OrderDimValue(dim, b)
      [] dim = "order_id" -> a < b

\* The smallest element of a non-empty set of numbers
MinOf(S) == CHOOSE n \in S : \A m \in S : n <= m

\* The positions of the scheme on which orders a and b differ
OrderDiffs(scheme, a, b) ==
    {n \in DOMAIN scheme : OrderDimValue(scheme[n], a) # OrderDimValue(scheme[n], b)}

\* C26: in the order ranking, of two orders the one placed first is ahead on
\* the first scheme dimension on which they differ, each dimension in its fixed
\* direction (VIP first, earlier due first, higher alpha, larger v_eff, heavier
\* first, order_id ascending); a later dimension decides only between orders
\* equal on all earlier ones.
C26_OrderDirections ==
    ret.fn = "rank_orders" =>
        \A i, j \in DOMAIN ret.last_rank :
            i < j =>
                LET a == ret.last_rank[i].order_id
                    b == ret.last_rank[j].order_id
                    D == OrderDiffs(ret.scheme, a, b)
                IN  D # {} => OrderDimBefore(ret.scheme[MinOf(D)], a, b)

\* A ranking of three orders by two dimensions that moved an order forward, one
\* pair decided by the first dimension and one by the second
C26_Witness ==
    /\ ret.fn = "rank_orders"
    /\ Len(ret.scheme) = 2
    /\ Len(ret.last_rank) = 3
    /\ \E i \in DOMAIN ret.input : ret.last_rank[i].order_id # ret.input[i]
    /\ \E i, j \in DOMAIN ret.last_rank :
            i < j /\ MinOf(OrderDiffs(ret.scheme, ret.last_rank[i].order_id,
                                      ret.last_rank[j].order_id) \cup {3}) = 1
    /\ \E i, j \in DOMAIN ret.last_rank :
            i < j /\ MinOf(OrderDiffs(ret.scheme, ret.last_rank[i].order_id,
                                      ret.last_rank[j].order_id) \cup {3}) = 2

\* The fragility score of a class: REGULAR 0, DELICATE 1, FRAGILE 2
FragilityScore(fragility) ==
    CASE fragility = "Fragility.REGULAR"  -> 0
      [] fragility = "Fragility.DELICATE" -> 1
      [] fragility = "Fragility.FRAGILE"  -> 2

\* The value of an item line on a dimension of the item scheme
ItemDimValue(dim, iid) ==
    LET item == SelectionItems[iid]
    IN  CASE dim = "cold"        -> item.category_cold /\ item.qty * item.unit_volume_m3 > 0
          [] dim = "weight"      -> item.qty * item.unit_weight_kg
          [] dim = "v_eff"       -> (item.qty * item.unit_volume_m3
                                        * (100 + item.padding_factor)) \div 100
          [] dim = "liquid"      -> item.is_liquid
          [] dim = "stack_limit" -> item.max_stack_load_kg
          [] dim = "fragile"     -> FragilityScore(item.fragility)
          [] dim = "upright"     -> item.upright_only
          [] dim = "item_id"     -> iid

\* Line a goes before line b on the dimension, in its fixed direction
ItemDimBefore(dim, a, b) ==
    CASE dim = "cold"        -> ItemDimValue(dim, a) /\ ~ItemDimValue(dim, b)
      [] dim = "weight"      -> ItemDimValue(dim, a) > ItemDimValue(dim, b)
      [] dim = "v_eff"       -> ItemDimValue(dim, a) > ItemDimValue(dim, b)
      [] dim = "liquid"      -> ItemDimValue(dim, a) /\ ~ItemDimValue(dim, b)
      [] dim = "stack_limit" -> ItemDimValue(dim, a) > ItemDimValue(dim, b)
      [] dim = "fragile"     -> ItemDimValue(dim, a) < ItemDimValue(dim, b)
      [] dim = "upright"     -> ~ItemDimValue(dim, a) /\ ItemDimValue(dim, b)
      [] dim = "item_id"     -> a < b

\* The positions of the scheme on which lines a and b differ
ItemDiffs(scheme, a, b) ==
    {n \in DOMAIN scheme : ItemDimValue(scheme[n], a) # ItemDimValue(scheme[n], b)}

\* C27: in the item ranking, of two lines the one placed first is ahead on the
\* first scheme dimension on which they differ, each dimension in its fixed
\* direction: cold lines first, heavier line first, larger line volume first,
\* liquids first, higher stack limit first, lower fragility score first
\* (REGULAR 0, DELICATE 1, FRAGILE 2), non-upright first, item_id ascending;
\* and each row reports the line weight, line volume and score so defined.
C27_ItemDirections ==
    ret.fn = "rank_items" =>
        /\ \A i \in DOMAIN ret.last_rank :
                LET r == ret.last_rank[i]
                IN  /\ r.w_ij = ItemDimValue("weight", r.item_id)
                    /\ r.v_ij_eff = ItemDimValue("v_eff", r.item_id)
                    /\ r.fragile_score = ItemDimValue("fragile", r.item_id)
        /\ \A i, j \in DOMAIN ret.last_rank :
                i < j =>
                    LET a == ret.last_rank[i].item_id
                        b == ret.last_rank[j].item_id
                        D == ItemDiffs(ret.scheme, a, b)
                    IN  D # {} => ItemDimBefore(ret.scheme[MinOf(D)], a, b)

\* A ranking by fragility first that moved a line forward and holds a line of
\* each fragility class, two lines being told apart by the second dimension
C27_Witness ==
    /\ ret.fn = "rank_items"
    /\ Len(ret.scheme) = 2
    /\ ret.scheme[1] = "fragile"
    /\ {ret.last_rank[i].fragile_score : i \in DOMAIN ret.last_rank} = {0, 1, 2}
    /\ \E i \in DOMAIN ret.input : ret.last_rank[i].item_id # ret.input[i]

\* The dimensions the two schemes are drawn from
OrderDimensions == {"vip", "due", "alpha", "v_eff", "weight", "order_id"}

ItemDimensions ==
    {"cold", "weight", "v_eff", "liquid", "stack_limit", "fragile", "upright", "item_id"}

\* The scheme of the call names an unknown dimension or names one twice
BadScheme ==
    LET known == IF ret.fn \in {"OrderLevelSelector", "rank_orders"}
                 THEN OrderDimensions ELSE ItemDimensions
    IN  \/ \E i \in DOMAIN ret.scheme : ret.scheme[i] \notin known
        \/ \E i, j \in DOMAIN ret.scheme : i # j /\ ret.scheme[i] = ret.scheme[j]

\* C28: constructing the order ranker or the item ranker with a scheme that has
\* an unknown or a repeated dimension raises the configuration error and gives
\* no ranker (nothing is ranked); every scheme of distinct known dimensions is
\* accepted and ranks.
C28_SchemeValidated ==
    ret.fn \in {"OrderLevelSelector", "ItemLevelSorter", "rank_orders", "rank_items"} =>
        IF BadScheme
        THEN /\ ret.fn \in {"OrderLevelSelector", "ItemLevelSorter"}
             /\ ret.raised = "ValueError"
             /\ ret.last_rank = <<>>
        ELSE /\ Ranked
             /\ ret.raised = "None"
             /\ IsPermutation

\* The item sorter refused a scheme of known dimensions that repeats one
C28_Witness ==
    /\ ret.fn = "ItemLevelSorter"
    /\ ret.raised = "ValueError"
    /\ \A i \in DOMAIN ret.scheme : ret.scheme[i] \in ItemDimensions
    /\ ret.input # <<>>

(***************************************************************************)
(* Properties of the Phase-1 orchestrator                                  *)
(***************************************************************************)

\* C29: after SelectionOrchestrator.run with reset_logs = true, running it once
\* more on the same state with reset_logs = true leaves the order-queue log and
\* the per-order item-queue logs as they are after the single run.
C29_RunTwiceSameLogs ==
    (ret.fn = "selection_run" /\ ret.reset_logs) =>
        LET again == selection_run(selection, tracker, ret.run_id, TRUE).tracker
        IN  /\ again.order_queue_log = tracker.order_queue_log
            /\ again.item_queue_log = tracker.item_queue_log

(***************************************************************************)
(* Properties of run_many                                                  *)
(***************************************************************************)

\* The orders the first n decisions placed on truck t, in the order decided
RECURSIVE PlacedOn(_, _)
PlacedOn(t, n) ==
    IF n = 0 THEN <<>>
    ELSE PlacedOn(t, n - 1) \o
            (IF run.decisions[n].truck_id = t THEN <<run.queue[n]>> ELSE <<>>)

\* C21: in run_many the k-th decision is for the k-th queued order and is taken
\* against residuals that include every order placed before it: the order fits
\* the volume and weight its truck has left after the earlier placements; each
\* truck's assigned list is the orders placed on it in queue order, and the
\* residuals the next placer reads count all of them.
C21_CommitBeforeNextRead ==
    /\ run.k = Len(run.decisions) + 1
    /\ \A k \in DOMAIN run.decisions :
            LET d == run.decisions[k]
                before == PlacedOn(d.truck_id, k - 1)
            IN  /\ d.order_id = run.queue[k]
                /\ d.truck_id # None =>
                    /\ OrderBook[d.order_id].effective_volume_m3
                          <= AvailableVolume(d.truck_id)
                                - SumOver(before, "effective_volume_m3")
                    /\ OrderBook[d.order_id].weight_kg
                          <= Fleet[d.truck_id].weight_limit_kg - SumOver(before, "weight_kg")
    /\ \A t \in TruckIds :
            LET placed == PlacedOn(t, Len(run.decisions))
            IN  /\ trucks[t].assigned_orders = placed
                /\ truck_residuals(t).remaining_volume_m3
                      = AvailableVolume(t) - SumOver(placed, "effective_volume_m3")
                /\ truck_residuals(t).remaining_weight_kg
                      = Fleet[t].weight_limit_kg - SumOver(placed, "weight_kg")

\* run_many went through three different orders and placed two of them on one
\* truck, the later one after the earlier had taken space there and the order
\* ahead of both in the book being the later one in the queue
C21_Witness ==
    /\ Len(run.decisions) = 3
    /\ \E t \in TruckIds :
            /\ Len(trucks[t].assigned_orders) = 2
            /\ trucks[t].assigned_orders[1] > trucks[t].assigned_orders[2]
            /\ truck_residuals(t).remaining_volume_m3 < AvailableVolume(t)
    /\ \A i, j \in DOMAIN run.queue : i # j => run.queue[i] # run.queue[j]

\* run_many has returned
RunManyDone == run.k > Len(run.queue)

\* Every queued order has a ledger entry, placed or failed with a reason
LedgerComplete ==
    \A k \in DOMAIN run.queue :
        /\ run.queue[k] \in DOMAIN tracker.orders
        /\ \/ tracker.orders[run.queue[k]].placed
           \/ tracker.orders[run.queue[k]].reason # "None"

\* C22: run_many over a finite queue returns, after one run_one for each queued
\* id in turn (never more decisions than orders processed, and on return one
\* decision per queued id); afterwards every queued order has a ledger entry
\* that is placed or failed with a reason; a failed order does not keep the
\* orders behind it from being processed.
C22_RunManyTerminates ==
    /\ <>RunManyDone
    /\ [](Len(run.decisions) = run.k - 1 /\ run.k <= Len(run.queue) + 1)
    /\ [](RunManyDone =>
            /\ Len(run.decisions) = Len(run.queue)
            /\ \A k \in DOMAIN run.queue : run.decisions[k].order_id = run.queue[k]
            /\ LedgerComplete)

\* run_many has returned from a queue in which an order failed and the order
\* behind it was placed
C22_Witness ==
    /\ RunManyDone
    /\ \E k \in DOMAIN run.decisions :
            /\ k < Len(run.decisions)
            /\ run.decisions[k].truck_id = None
            /\ run.decisions[k + 1].truck_id # None

(***************************************************************************)
(* Properties of the day summary                                           *)
(***************************************************************************)

\* The VIP orders of the queue that the ledger has as not placed
FailedVipOrders ==
    {o \in {run.queue[k] : k \in DOMAIN run.queue} :
        /\ OrderBook[o].vip
        /\ o \in DOMAIN tracker.orders
        /\ ~tracker.orders[o].placed}

\* C31: after a run the MISS_VIP KPI is the number of VIP orders that failed
\* (no order is late here: run_one passes no lateness), and every order
\* recorded as failed keeps its customer's VIP flag in the ledger.
C31_MissVipCountsFailedVip ==
    RunManyDone =>
        /\ summarize_day(tracker).fleet.MISS_VIP = Cardinality(FailedVipOrders)
        /\ \A o \in DOMAIN tracker.orders :
                ~tracker.orders[o].placed => tracker.orders[o].is_vip = OrderBook[o].vip

\* The cold volume and the weight of an item line
LineColdVolume(iid) ==
    IF SelectionItems[iid].category_cold
    THEN SelectionItems[iid].qty * SelectionItems[iid].unit_volume_m3 ELSE 0

LineWeight(iid) == SelectionItems[iid].qty * SelectionItems[iid].unit_weight_kg

\* C32: every ranked line is placed in zone haz if its item is HAZARDOUS,
\* otherwise in zone cold if the line has cold volume, otherwise in ambient.
C32_ZoneByTagThenCold ==
    ret.fn = "plan" =>
        \A i \in DOMAIN ret.placements :
            LET iid == ret.placements[i].item_id
            IN  ret.placements[i].zone =
                    IF SelectionItems[iid].separation_tag = "Hazardous" THEN "haz"
                    ELSE IF LineColdVolume(iid) > 0 THEN "cold"
                    ELSE "ambient"

\* The line weight the first n placements have put on a lane of a zone
LaneLoad(pl, n, zone, lane) ==
    LET S == {j \in 1..n : pl[j].zone = zone /\ pl[j].lane = lane}
        sum[T \in SUBSET S] ==
            IF T = {} THEN 0
            ELSE LET j == CHOOSE x \in T : TRUE
                 IN  LineWeight(pl[j].item_id) + sum[T \ {j}]
    IN  sum[S]

\* The heaviest line among the first n placements of a zone
HeaviestLine(pl, n, zone) ==
    LET S == {LineWeight(pl[j].item_id) : j \in {k \in 1..n : pl[k].zone = zone}}
    IN  IF S = {} THEN 0 ELSE CHOOSE m \in S : \A x \in S : x <= m

\* C34: each line goes to the lane of its zone that carries the smaller line
\* weight so far, left on a tie, and after every line the two lanes of a zone
\* differ by no more than the heaviest line placed in that zone.
C34_LaneBalance ==
    ret.fn = "plan" =>
        \A i \in DOMAIN ret.placements :
            LET pl == ret.placements
                z  == pl[i].zone
                d  == LaneLoad(pl, i, z, "left") - LaneLoad(pl, i, z, "right")
            IN  /\ pl[i].lane =
                        IF LaneLoad(pl, i - 1, z, "left") <= LaneLoad(pl, i - 1, z, "right")
                        THEN "left" ELSE "right"
                /\ d <= HeaviestLine(pl, i, z)
                /\ 0 - d <= HeaviestLine(pl, i, z)

\* A line that is fragile (score at least 1) or upright-only
IsTopLine(iid) ==
    \/ FragilityScore(SelectionItems[iid].fragility) >= 1
    \/ SelectionItems[iid].upright_only

C33_RunOneUsesSetThreshold ==
    [][(ret'.fn = "run_one" /\ HasAttr(orchestrator, "alpha_threshold")) =>
            ret'.bucket = determine_bucket(OrderBook[ret'.order_id].cold_fraction,
                                           orchestrator.alpha_threshold)]_vars

\* C36: the cap_violation flag of a truck's row is 1 iff its used effective
\* volume exceeds Q, or its used weight exceeds W, or its used cold volume
\* exceeds Q_cold, also for a truck whose Q_cold is 0.
C36_CapViolationFlag ==
    \A t \in DOMAIN summarize_day(tracker).per_truck :
        LET row == summarize_day(tracker).per_truck[t]
        IN  row.cap_violation = 1 <=>
                \/ row.used_v_eff > row.Q
                \/ row.used_w > row.W
                \/ row.used_q_cold > row.Q_cold

\* The trucks that carry at least one order
LoadedTrucks == {t \in TruckIds : trucks[t].assigned_orders # <<>>}

\* The calls that compute a decision with a placer
PlacerCalls == {"assign_to_best_reefer", "assign_bucket_b_order", "assign_bucket_c_order"}

\* The decision a call returned, as the AssignOrder it was
ReturnedDecision(r) ==
    AssignOrder(r.order_id, r.truck_id, r.opened_new_truck, r.rationale)

\* C37: computing a decision changes nothing.  A placer call that returns no
\* decision leaves every truck, the open set and the whole tracker as they
\* were; when run_one finds no truck the only change is the failure record of
\* the order in the tracker; and when a decision is returned the state after
\* the step is exactly what apply_decision makes of the state before it.
C37_PlacersReadOnly ==
    [][/\ (ret'.fn \in PlacerCalls /\ ret'.truck_id = None) =>
                /\ trucks' = trucks
                /\ open' = open
                /\ tracker' = tracker
       /\ (ret'.fn = "run_one" /\ ret'.truck_id = None) =>
                /\ trucks' = trucks
                /\ open' = open
                /\ tracker'.trucks = tracker.trucks
                /\ tracker'.opened_trucks = tracker.opened_trucks
                /\ \A o \in DOMAIN tracker.orders \ {ret'.order_id} :
                        tracker'.orders[o] = tracker.orders[o]
                /\ DOMAIN tracker'.orders = DOMAIN tracker.orders \cup {ret'.order_id}
                /\ tracker'.sum_q = tracker.sum_q
                /\ tracker'.c_total = tracker.c_total
       /\ (ret'.fn \in PlacerCalls \cup {"run_one"} /\ ret'.truck_id # None) =>
                LET a == apply_decision(ReturnedDecision(ret'))
                IN  /\ trucks' = a.trucks
                    /\ open' = a.open
                    /\ tracker' = a.tracker
       /\ ret'.fn \in PlacerCalls \cup {"run_one"} =>
                /\ policy' = policy
                /\ selection' = selection]_vars

\* A placer was asked for an order with trucks open and loaded, returned no
\* decision, and the order has no entry in the tracker
C37_Witness ==
    /\ ret.fn \in PlacerCalls
    /\ ret.truck_id = None
    /\ ret.order_id \notin DOMAIN tracker.orders
    /\ open # {}
    /\ \E t \in open : trucks[t].assigned_orders # <<>>

\* C38: after any sequence of run_one calls from a day with no open truck,
\* the trucks the tracker has as opened, the open set of the state view and the
\* trucks with an assigned order are the same set, and N_trucks is its size.
C38_OpenedSetsAgree ==
    /\ tracker.opened_trucks = open
    /\ open = LoadedTrucks
    /\ {t \in DOMAIN tracker.trucks : tracker.trucks[t].opened} = open
    /\ summarize_day(tracker).fleet.N_trucks = Cardinality(open)

\* run_one has opened a second truck after filling the first
C38_Witness ==
    /\ ret.fn = "run_one"
    /\ Cardinality(open) = 2
    /\ \E t \in open : Len(trucks[t].assigned_orders) = 2

\* C39: every order in the ledger is placed iff its assigned_truck_count is at
\* least 1, and carries a reason iff it is not placed, whatever assignments and
\* failures were recorded for it.
C39_LedgerConsistent ==
    \A o \in DOMAIN tracker.orders :
        /\ tracker.orders[o].placed <=> tracker.orders[o].assigned_truck_count >= 1
        /\ tracker.orders[o].reason # "None" <=> ~tracker.orders[o].placed

\* The times a departure is stamped with
DepartureStamps == {"None", "18:00", "21:30"}

\* C40: on_departure on a truck that has departed changes nothing, whatever the
\* time given: the departure time and the utilisation snapshot of the first call
\* stay; on a truck that was never opened it raises and changes nothing.
C40_OnDepartureIdempotent ==
    \A t \in TruckIds, when \in DepartureStamps :
        /\ t \notin DOMAIN tracker.trucks =>
                /\ on_departure_raises(tracker, t)
                /\ on_departure(tracker, t, when) = tracker
        /\ (t \in DOMAIN tracker.trucks /\ tracker.trucks[t].departed) =>
                /\ ~on_departure_raises(tracker, t)
                /\ on_departure(tracker, t, when) = tracker
        /\ (t \in DOMAIN tracker.trucks /\ ~tracker.trucks[t].departed) =>
                LET once == on_departure(tracker, t, when)
                IN  /\ once.trucks[t].departed
                    /\ once.trucks[t].departure_time = when
                    /\ \A again \in DepartureStamps : on_departure(once, t, again) = once

\* A loaded truck has departed at 18:00 with its snapshot taken, another truck
\* is open and a third was never opened
C40_Witness ==
    /\ \E t \in DOMAIN tracker.trucks :
            /\ tracker.trucks[t].departed
            /\ tracker.trucks[t].departure_time = "18:00"
            /\ tracker.trucks[t].u_vol_at_departure > 0
    /\ \E t \in DOMAIN tracker.trucks : ~tracker.trucks[t].departed
    /\ \E t \in TruckIds : t \notin DOMAIN tracker.trucks

====
